---- MODULE Spec2Model ----
(***************************************************************************)
(* Model of the response orchestration pipeline of LocalLens-Bengaluru:    *)
(* the sliding-window RateLimiter / RateLimiterManager, the ContextManager *)
(* document store, the OpenAIService gate and the ResponseGenerator.       *)
(*                                                                         *)
(* Strings are modelled as sequences of tokens (each token a TLA+ string); *)
(* concatenation is \o, the empty string is << >>, and String.includes is  *)
(* contiguous sub-sequence containment.                                    *)
(***************************************************************************)
EXTENDS Integers, Sequences, FiniteSets, TLC

(***************************************************************************)
(* Bounds of the model.                                                    *)
(***************************************************************************)
\* Last instant (ms) the simulated clock Date.now() reaches.
MaxTime == 3000
\* maxRequests of the 'query' and 'voice' endpoints in the configuration
\* table handed to the RateLimiterManager constructor.
MaxQueryReq == 2
MaxVoiceReq == 1
\* windowMs of every endpoint in that table.
WindowMs == 2000
\* Number of checkLimit calls made in one run, over all pairs.
MaxCalls == 5
\* Last instant (ms) of the clock while the generative limiter is exercised.
GenHorizon == 1000

VARIABLES
    now,          \* Date.now(), in ms
    configs,      \* RateLimiterManager.configs: endpoint -> RateLimitConfig
    requests,     \* limiters[endpoint].requests: identifier -> timestamps
    lastResult,   \* the last RateLimitResult returned, with its call
    nCalls,       \* history: number of checkLimit calls per pair
    firstAt,      \* history: instant of the first checkLimit call per pair
    allowedLog,   \* history: instants of the allowed checkLimit calls per pair
    rejection,    \* history: the last rejected checkLimit call per pair
    aiAvailable,  \* OpenAIService.isServiceAvailable()
    mapsAvailable, \* GoogleMapsService.isAvailable()
    readable,     \* ids of the configured documents whose file can be read
    loadedContexts, \* ContextManager.loadedContexts: ids of the loaded documents
    aiRequests,   \* OpenAIService.rateLimiter.requests.get('openai-requests')
    aiCallLog,    \* history: instants of the external generative calls
    rq,           \* per request of generateResponse: its position and locals
    tg,           \* the toggleContext call in progress and the last result
    ls,           \* history: the last two results of getAvailableContexts
    geo,          \* a LocationService.getRecommendations call: inputs and result
    sl,           \* a SlangInterpreter.explainSlang call: inputs and result
    post,         \* the last POST /query: its body and how far it got
    cm,           \* a ContextManager with one document's content: file, store,
                  \* calls in progress, last search
    sv            \* the standalone serverless handler: contextCache and the
                  \* loadContextContent calls

rateVars == <<now, configs, requests, lastResult, nCalls, firstAt, allowedLog,
              rejection>>
orchVars == <<aiAvailable, mapsAvailable, readable, loadedContexts, aiRequests,
              aiCallLog, rq, tg, ls, geo, sl, post, cm, sv>>
vars == <<rateVars, orchVars>>

(***************************************************************************)
(* Generic helpers.                                                        *)
(***************************************************************************)
Max(a, b) == IF a >= b THEN a ELSE b

\* Math.ceil(a / b) for b > 0.
CeilDiv(a, b) == -((-a) \div b)

(***************************************************************************)
(* RateLimiter (src/unnamed/part_010).                                     *)
(***************************************************************************)
Endpoints == {"query", "voice"}
Identifiers == {"s1", "s2"}
TickSteps == {1000}

\* The configuration table of this deployment (constructor argument of
\* RateLimiterManager, same shape as DEFAULT_RATE_LIMITS).
RATE_LIMITS ==
    [query |-> [maxRequests |-> MaxQueryReq, windowMs |-> WindowMs],
     voice |-> [maxRequests |-> MaxVoiceReq, windowMs |-> WindowMs]]

\* timestamps.filter(ts => ts > windowStart)
FilterWindow(timestamps, windowStart) ==
    SelectSeq(timestamps, LAMBDA ts : ts > windowStart)

\* Mutant of CheckLimit: retryAfter is one second short.
CheckLimitRetryShort(timestamps, config, t) ==
    LET valid == FilterWindow(timestamps, t - config.windowMs)
        remaining == Max(0, config.maxRequests - Len(valid))
        resetTime == IF Len(valid) > 0 THEN valid[1] + config.windowMs
                     ELSE t + config.windowMs
    IN  IF Len(valid) >= config.maxRequests
        THEN [allowed |-> FALSE, remaining |-> 0, resetTime |-> resetTime,
              retryAfter |-> Max(1, CeilDiv(valid[1] + config.windowMs - t, 1000) - 1),
              timestamps |-> timestamps]
        ELSE [allowed |-> TRUE, remaining |-> remaining - 1,
              resetTime |-> resetTime, retryAfter |-> 0,
              timestamps |-> Append(valid, t)]

\* Mutant of CheckLimit: the allowed request is not recorded.
CheckLimitNoRecord(timestamps, config, t) ==
    LET valid == FilterWindow(timestamps, t - config.windowMs)
        remaining == Max(0, config.maxRequests - Len(valid))
        resetTime == IF Len(valid) > 0 THEN valid[1] + config.windowMs
                     ELSE t + config.windowMs
    IN  IF Len(valid) >= config.maxRequests
        THEN [allowed |-> FALSE, remaining |-> 0, resetTime |-> resetTime,
              retryAfter |-> Max(1, CeilDiv(valid[1] + config.windowMs - t, 1000)),
              timestamps |-> timestamps]
        ELSE [allowed |-> TRUE, remaining |-> remaining - 1,
              resetTime |-> resetTime, retryAfter |-> 0,
              timestamps |-> timestamps]

\* Mutant of CheckLimit: the limit is compared with > instead of >=.
CheckLimitOffByOne(timestamps, config, t) ==
    LET valid == FilterWindow(timestamps, t - config.windowMs)
        remaining == Max(0, config.maxRequests - Len(valid))
        resetTime == IF Len(valid) > 0 THEN valid[1] + config.windowMs
                     ELSE t + config.windowMs
    IN  IF Len(valid) > config.maxRequests
        THEN [allowed |-> FALSE, remaining |-> 0, resetTime |-> resetTime,
              retryAfter |-> Max(1, CeilDiv(valid[1] + config.windowMs - t, 1000)),
              timestamps |-> timestamps]
        ELSE [allowed |-> TRUE, remaining |-> remaining - 1,
              resetTime |-> resetTime, retryAfter |-> 0,
              timestamps |-> Append(valid, t)]

\* Mutant of CheckLimit: a rejected request is recorded too.
CheckLimitRecordsRejected(timestamps, config, t) ==
    LET valid == FilterWindow(timestamps, t - config.windowMs)
        remaining == Max(0, config.maxRequests - Len(valid))
        resetTime == IF Len(valid) > 0 THEN valid[1] + config.windowMs
                     ELSE t + config.windowMs
    IN  IF Len(valid) >= config.maxRequests
        THEN [allowed |-> FALSE, remaining |-> 0, resetTime |-> resetTime,
              retryAfter |-> Max(1, CeilDiv(valid[1] + config.windowMs - t, 1000)),
              timestamps |-> Append(valid, t)]
        ELSE [allowed |-> TRUE, remaining |-> remaining - 1,
              resetTime |-> resetTime, retryAfter |-> 0,
              timestamps |-> Append(valid, t)]

\* Mutant of CheckLimit: remaining does not count the request just
\* recorded.
CheckLimitRemainingStale(timestamps, config, t) ==
    LET valid == FilterWindow(timestamps, t - config.windowMs)
        remaining == Max(0, config.maxRequests - Len(valid))
        resetTime == IF Len(valid) > 0 THEN valid[1] + config.windowMs
                     ELSE t + config.windowMs
    IN  IF Len(valid) >= config.maxRequests
        THEN [allowed |-> FALSE, remaining |-> 0, resetTime |-> resetTime,
              retryAfter |-> Max(1, CeilDiv(valid[1] + config.windowMs - t, 1000)),
              timestamps |-> timestamps]
        ELSE [allowed |-> TRUE, remaining |-> remaining,
              resetTime |-> resetTime, retryAfter |-> 0,
              timestamps |-> Append(valid, t)]

\* RateLimiter.checkLimit: the result, and the list stored for the
\* identifier afterwards (retryAfter is 0 where the code leaves it undefined).
CheckLimit(timestamps, config, t) ==
    LET valid == FilterWindow(timestamps, t - config.windowMs)
        remaining == Max(0, config.maxRequests - Len(valid))
        resetTime == IF Len(valid) > 0 THEN valid[1] + config.windowMs
                     ELSE t + config.windowMs
    IN  IF Len(valid) >= config.maxRequests
        THEN [allowed |-> FALSE, remaining |-> 0, resetTime |-> resetTime,
              retryAfter |-> Max(1, CeilDiv(valid[1] + config.windowMs - t, 1000)),
              timestamps |-> timestamps]
        ELSE [allowed |-> TRUE, remaining |-> remaining - 1,
              resetTime |-> resetTime, retryAfter |-> 0,
              timestamps |-> Append(valid, t)]

\* DEFAULT_RATE_LIMITS.query
DEFAULT_QUERY_LIMIT == [maxRequests |-> 30, windowMs |-> 60000]

\* n checkLimit calls in a row for one identifier whose list is
\* `timestamps`, all at instant t: the results, in call order.
RECURSIVE Burst(_, _, _, _)
Burst(timestamps, config, t, n) ==
    IF n = 0 THEN << >>
    ELSE LET res == CheckLimit(timestamps, config, t)
         IN  <<res>> \o Burst(res.timestamps, config, t, n - 1)

\* RateLimiter.getRemainingRequests
GetRemainingRequests(timestamps, config, t) ==
    Max(0, config.maxRequests - Len(FilterWindow(timestamps, t - config.windowMs)))

\* Mutant of SetRequests: one limiter serves every endpoint.
SetRequestsOneLimiter(reqs, endpoint, identifier, timestamps) ==
    [e \in DOMAIN reqs |-> [reqs[e] EXCEPT ![identifier] = timestamps]]

\* RateLimiterManager.getLimiter(endpoint) and, in that limiter,
\* this.requests.set(identifier, timestamps).
SetRequests(reqs, endpoint, identifier, timestamps) ==
    [reqs EXCEPT ![endpoint][identifier] = timestamps]

\* RateLimiter.isAllowed: would a request be allowed; records nothing.
IsAllowed(timestamps, config, t) ==
    Len(FilterWindow(timestamps, t - config.windowMs)) < config.maxRequests

(***************************************************************************)
(* Text helpers: a string is a sequence of tokens.                         *)
(***************************************************************************)
\* String.prototype.includes
Includes(text, pat) ==
    \E k \in 0..(Len(text) - Len(pat)) :
        \A j \in 1..Len(pat) : text[k + j] = pat[j]

\* RegExp.test for an alternation of literal keywords.
TestAny(text, keywords) == \E kw \in keywords : Includes(text, kw)

\* Array.prototype.find over the sequence of the predicate's values: index
\* of the first TRUE, 0 if none.
FindFirst(flags) ==
    IF \E k \in 1..Len(flags) : flags[k]
    THEN CHOOSE k \in 1..Len(flags) : flags[k] /\ \A j \in 1..(k - 1) : ~flags[j]
    ELSE 0

\* Array.prototype.map
RECURSIVE MapSeq(_, _)
MapSeq(seq, F) ==
    IF seq = << >> THEN << >> ELSE <<F[Head(seq)]>> \o MapSeq(Tail(seq), F)

\* Array.from(new Set(seq)): first occurrences, in order.
RECURSIVE Dedup(_)
Dedup(seq) ==
    IF seq = << >> THEN << >>
    ELSE LET init == Dedup(SubSeq(seq, 1, Len(seq) - 1))
             last == seq[Len(seq)]
         IN  IF \E k \in 1..Len(init) : init[k] = last THEN init
             ELSE Append(init, last)

(***************************************************************************)
(* ContextManager (src/unnamed/part_008): the document store.              *)
(***************************************************************************)
\* ContextManager.contextFiles: the ids of the configured documents.
ContextFileIds == {"city", "slang", "food", "traffic", "etiquette"}

\* `${ctx}.md`
FileName ==
    [city |-> "city.md", slang |-> "slang.md", food |-> "food.md",
     traffic |-> "traffic.md", etiquette |-> "etiquette.md",
     bogus |-> "bogus.md"]

\* `[${domain}/` and `${sectionName}]: ` of a search result.
OpenTag ==
    [city |-> "[city/", slang |-> "[slang/", food |-> "[food/",
     traffic |-> "[traffic/", etiquette |-> "[etiquette/"]
CloseTag ==
    [intro |-> "intro]:", phrases |-> "phrases]:", dishes |-> "dishes]:",
     areas |-> "areas]:", tips |-> "tips]:"]

\* The document files as parseMarkdownSections splits them: for each id the
\* sections in file order, each with its (lower-case) text.
FileSections ==
    [city |-> <<[name |-> "areas", text |-> <<"koramangala", "startup", "hub">>]>>,
     slang |-> <<[name |-> "intro", text |-> <<"local", "phrases">>],
                 [name |-> "phrases", text |-> <<"sakkath", "meaning", "awesome">>]>>,
     food |-> <<[name |-> "dishes", text |-> <<"masala", "dosa", "breakfast">>]>>,
     traffic |-> <<[name |-> "tips", text |-> <<"avoid", "silk", "board">>]>>,
     etiquette |-> <<[name |-> "tips", text |-> <<"remove", "shoes">>]>>]

\* ContextManager.isContextLoaded
IsContextLoaded(st, fileId) == fileId \in st

\* ContextManager.getContextForDomain: every document's domain is its id.
GetContextForDomain(st, domain) == domain \in st

\* The matches of one document, in section order.
RECURSIVE SearchSections(_, _, _)
SearchSections(domain, sections, query) ==
    IF sections = << >> THEN << >>
    ELSE LET sec == Head(sections)
             rest == SearchSections(domain, Tail(sections), query)
         IN  IF Includes(sec.text, query)
             THEN <<(<<OpenTag[domain], CloseTag[sec.name]>> \o sec.text \o <<"...">>)>> \o rest
             ELSE rest

\* ContextManager.searchInContexts
RECURSIVE SearchInContexts(_, _, _)
SearchInContexts(st, query, contextIds) ==
    IF contextIds = << >> THEN << >>
    ELSE LET id == Head(contextIds)
             rest == SearchInContexts(st, query, Tail(contextIds))
         IN  IF id \in st THEN SearchSections(id, FileSections[id], query) \o rest
             ELSE rest

(***************************************************************************)
(* ResponseGenerator (src/unnamed/part_005): the pure parts.               *)
(***************************************************************************)
Personas == {"newbie", "student"}

\* ResponseGenerator.getPersonaPrefix
GetPersonaPrefix(persona) ==
    CASE persona = "newbie" -> <<"Welcome to Bangalore! Here's what you need to know:">>
      [] persona = "student" -> <<"Hey! Quick tip:">>
      [] persona = "it-professional" -> <<"Here's the info:">>
      [] persona = "tourist" -> <<"Great question! As a visitor, you'll find this helpful:">>
      [] OTHER -> << >>

\* The keyword alternations of isSlangQuery, isFoodQuery, isTrafficQuery and
\* isEtiquetteQuery.
SlangKeywords ==
    {<<"slang">>, <<"meaning">>, <<"what", "does">>, <<"kannada">>,
     <<"phrase">>, <<"say">>, <<"speak">>}
FoodKeywords ==
    {<<"food">>, <<"eat">>, <<"restaurant">>, <<"dosa">>, <<"coffee">>,
     <<"hungry">>, <<"lunch">>, <<"dinner">>, <<"breakfast">>}
TrafficKeywords ==
    {<<"traffic">>, <<"commute">>, <<"metro">>, <<"bus">>, <<"auto">>,
     <<"uber">>, <<"ola">>, <<"travel">>, <<"route">>, <<"reach">>}
EtiquetteKeywords ==
    {<<"etiquette">>, <<"culture">>, <<"custom">>, <<"behave">>, <<"tip">>,
     <<"greeting">>, <<"temple">>, <<"office">>}

IsSlangQuery(query) == TestAny(query, SlangKeywords)
IsFoodQuery(query) == TestAny(query, FoodKeywords)
IsTrafficQuery(query) == TestAny(query, TrafficKeywords)
IsEtiquetteQuery(query) == TestAny(query, EtiquetteKeywords)

\* locationRecommendations: undefined, or a list of suggestions.
NoRecommendations == [defined |-> FALSE, items |-> << >>]

\* c.replace(/\[<domain>\/[^\]]+\]:\s*/, ''): the first tag is cut out.
StripTag(c, open) ==
    LET k == FindFirst([j \in 1..Len(c) |-> c[j] = open])
    IN  IF k = 0 \/ k = Len(c) THEN c
        ELSE SubSeq(c, 1, k - 1) \o SubSeq(c, k + 2, Len(c))

\* The shared shape of handleSlangQuery, handleTrafficQuery and
\* handleEtiquetteQuery: the first result carrying the domain's tag, its tag
\* removed, or else the built-in sentence.
HandleDomainQuery(persona, content, open, builtin) ==
    LET k == FindFirst([j \in 1..Len(content) |-> Includes(content[j], <<open>>)])
    IN  IF k # 0 THEN GetPersonaPrefix(persona) \o StripTag(content[k], open)
        ELSE GetPersonaPrefix(persona) \o <<builtin>>

HandleSlangQuery(persona, content) ==
    HandleDomainQuery(persona, content, "[slang/",
        "Common Bangalore phrases: ... What specific phrase would you like to know about?")

\* ResponseGenerator.handleFoodQuery
HandleFoodQuery(persona, content, recs) ==
    IF recs.defined /\ Len(recs.items) > 0
    THEN GetPersonaPrefix(persona)
           \o <<"Based on your location, here are some recommendations:">>
           \o recs.items
    ELSE HandleDomainQuery(persona, content, "[food/",
           "Must-try in Bangalore: Masala Dosa, Filter Coffee, Bisi Bele Bath. ...")

HandleTrafficQuery(persona, content) ==
    HandleDomainQuery(persona, content, "[traffic/",
        "Bangalore traffic tip: Avoid Silk Board junction during peak hours ...")

HandleEtiquetteQuery(persona, content) ==
    HandleDomainQuery(persona, content, "[etiquette/",
        "Key etiquette: Use Anna/Akka for strangers, remove shoes at temples and homes ...")

\* ResponseGenerator.generateGenericResponse
GenerateGenericResponse(query, persona) ==
    GetPersonaPrefix(persona)
      \o <<"I can provide general information, but for Bangalore-specific advice, please enable the local context. Your question:">>
      \o query

\* ResponseGenerator.generateContextAwareResponse
GenerateContextAwareResponse(query, persona, relevantContent, recs) ==
    IF IsSlangQuery(query) THEN HandleSlangQuery(persona, relevantContent)
    ELSE IF IsFoodQuery(query) THEN HandleFoodQuery(persona, relevantContent, recs)
    ELSE IF IsTrafficQuery(query) THEN HandleTrafficQuery(persona, relevantContent)
    ELSE IF IsEtiquetteQuery(query) THEN HandleEtiquetteQuery(persona, relevantContent)
    ELSE IF Len(relevantContent) > 0
         THEN GetPersonaPrefix(persona) \o <<"Based on local knowledge:">>
                \o relevantContent[1]
         ELSE GetPersonaPrefix(persona)
                \o <<"I'd be happy to help with questions about Bangalore! ...">>

\* ResponseGenerator.determineUsedContextFiles
DetermineUsedContextFiles(relevantContent, contextIds) ==
    LET tagged == SelectSeq(relevantContent,
                      LAMBDA c : c # << >> /\ \E d \in DOMAIN OpenTag : c[1] = OpenTag[d])
        fileOf == [c \in {tagged[k] : k \in 1..Len(tagged)} |->
                      FileName[CHOOSE d \in DOMAIN OpenTag : c[1] = OpenTag[d]]]
        usedFiles == Dedup(MapSeq(tagged, fileOf))
    IN  IF Len(usedFiles) > 0 THEN usedFiles ELSE MapSeq(contextIds, FileName)

\* ResponseGenerator.extractContextFilesFromResponse: the ids named after a
\* "Sources:" marker of the generated text, or all ids when there is none.
ExtractContextFilesFromResponse(response, contextIds) ==
    LET k == FindFirst([j \in 1..Len(response) |-> response[j] = "Sources:"])
    IN  IF k # 0 /\ k < Len(response)
        THEN LET sourcesText == SubSeq(response, k + 1, Len(response))
             IN  MapSeq(SelectSeq(contextIds,
                            LAMBDA ctx : \/ Includes(sourcesText, <<ctx>>)
                                         \/ Includes(sourcesText, <<FileName[ctx]>>)),
                        FileName)
        ELSE MapSeq(contextIds, FileName)

\* Mutant of GenerateFallbackResponse: the disabled case is not told apart.
FallbackIgnoresSwitch(st, query, persona, enabled, contextIds, recs) ==
    LET relevantContent == SearchInContexts(st, query, contextIds)
    IN  [response |-> GenerateContextAwareResponse(query, persona, relevantContent, recs),
         contextUsed |-> contextIds,
         contextFilesUsed |-> DetermineUsedContextFiles(relevantContent, contextIds),
         persona |-> persona,
         bangaloreContextActive |-> TRUE,
         aiPowered |-> FALSE,
         locationRecommendations |-> recs]

\* ResponseGenerator.generateFallbackResponse, reading the store `st`.
GenerateFallbackResponse(st, query, persona, enabled, contextIds, recs) ==
    IF ~enabled
    THEN [response |-> GenerateGenericResponse(query, persona),
          contextUsed |-> << >>,
          contextFilesUsed |-> << >>,
          persona |-> persona,
          bangaloreContextActive |-> FALSE,
          aiPowered |-> FALSE,
          locationRecommendations |-> NoRecommendations]
    ELSE LET relevantContent == SearchInContexts(st, query, contextIds)
         IN  [response |-> GenerateContextAwareResponse(query, persona, relevantContent, recs),
              contextUsed |-> contextIds,
              contextFilesUsed |-> DetermineUsedContextFiles(relevantContent, contextIds),
              persona |-> persona,
              bangaloreContextActive |-> TRUE,
              aiPowered |-> FALSE,
              locationRecommendations |-> recs]

(***************************************************************************)
(* The state machine.                                                      *)
(***************************************************************************)
\* History of a pair: no checkLimit call of it was rejected yet.  clean: no
\* call of the pair was allowed since the rejection.
NoRejection == [seen |-> FALSE, at |-> 0, retryAfter |-> 0, clean |-> FALSE]

NoResult ==
    [endpoint |-> "none", identifier |-> "none", at |-> 0, prev |-> << >>,
     allowed |-> TRUE, remaining |-> 0, resetTime |-> 0, retryAfter |-> 0,
     rej |-> NoRejection]

RateInit ==
    /\ now = 0
    /\ configs = RATE_LIMITS
    /\ requests = [e \in Endpoints |-> [i \in Identifiers |-> << >>]]
    /\ lastResult = NoResult
    /\ nCalls = [e \in Endpoints |-> [i \in Identifiers |-> 0]]
    /\ firstAt = [e \in Endpoints |-> [i \in Identifiers |-> 0]]
    /\ allowedLog = [e \in Endpoints |-> [i \in Identifiers |-> << >>]]
    /\ rejection = [e \in Endpoints |-> [i \in Identifiers |-> NoRejection]]

\* History: the number of checkLimit calls made so far.
TotalCalls ==
    LET pairs == Endpoints \X Identifiers
        RECURSIVE Sum(_)
        Sum(S) == IF S = {} THEN 0
                  ELSE LET p == CHOOSE x \in S : TRUE
                       IN  nCalls[p[1]][p[2]] + Sum(S \ {p})
    IN  Sum(pairs)

\* The clock advances.
Tick(limit) ==
    /\ \E d \in TickSteps : now + d <= limit /\ now' = now + d
    /\ UNCHANGED <<configs, requests, lastResult, nCalls, firstAt, allowedLog,
                   rejection>>
    /\ UNCHANGED orchVars

\* The checkLimit call of rateLimitMiddleware: its effect on the limiter.
RateLimitStep(endpoint, identifier) ==
    /\ TotalCalls < MaxCalls
    /\ LET prev == requests[endpoint][identifier]
           res == CheckLimit(prev, configs[endpoint], now)
       IN  /\ requests' = SetRequests(requests, endpoint, identifier, res.timestamps)
           /\ lastResult' = [endpoint |-> endpoint, identifier |-> identifier,
                             at |-> now, prev |-> prev,
                             allowed |-> res.allowed,
                             remaining |-> res.remaining,
                             resetTime |-> res.resetTime,
                             retryAfter |-> res.retryAfter,
                             rej |-> rejection[endpoint][identifier]]
           /\ rejection' = [rejection EXCEPT ![endpoint][identifier] =
                                IF res.allowed THEN [@ EXCEPT !.clean = FALSE]
                                ELSE [seen |-> TRUE, at |-> now,
                                      retryAfter |-> res.retryAfter, clean |-> TRUE]]
           /\ allowedLog' = IF res.allowed
                            THEN [allowedLog EXCEPT ![endpoint][identifier] = Append(@, now)]
                            ELSE allowedLog
    /\ nCalls' = [nCalls EXCEPT ![endpoint][identifier] = @ + 1]
    /\ firstAt' = IF nCalls[endpoint][identifier] = 0
                  THEN [firstAt EXCEPT ![endpoint][identifier] = now]
                  ELSE firstAt
    /\ UNCHANGED <<now, configs>>

\* rateLimitMiddleware(endpoint) for a request of `identifier`:
\* RateLimiterManager.checkLimit -> RateLimiter.checkLimit, one synchronous
\* call.
RateLimitMiddleware(endpoint, identifier) ==
    /\ RateLimitStep(endpoint, identifier)
    /\ UNCHANGED orchVars

RateNext ==
    \/ Tick(MaxTime)
    \/ \E e \in Endpoints, i \in Identifiers : RateLimitMiddleware(e, i)

(***************************************************************************)
(* The orchestrator: generateResponse as a process per request.  A step is *)
(* one synchronous run of the code between two waits for I/O: reading a    *)
(* document file, the places call, the generative call.                    *)
(***************************************************************************)
\* The limiter built in the OpenAIService constructor.
OPENAI_MAX_REQUESTS == 60
OPENAI_WINDOW_MS == 60000
OpenAIRateLimit ==
    [maxRequests |-> OPENAI_MAX_REQUESTS, windowMs |-> OPENAI_WINDOW_MS]

\* "What is sakkath?", lower-cased, as the search and the classifiers see it.
WhatIsSakkath == <<"what", "is", "sakkath">>

Queries == {<<"meaning">>, <<"dosa">>, <<"sakkath">>, WhatIsSakkath}
ActiveLists == {<< >>, <<"slang">>, <<"food", "city">>}
Locations == {"none", "koramangala"}
ToggleIds == {"slang", "food"}

\* The QueryRequest values handed to generateResponse.
QueryRequests ==
    [query : Queries, persona : Personas, bangaloreContextEnabled : BOOLEAN,
     loadedContexts : ActiveLists, location : Locations]

\* What the generative capability can answer: text (possibly empty, possibly
\* with a "Sources:" line) or an error.
AIOutcomes ==
    {[ok |-> TRUE, text |-> << >>],
     [ok |-> TRUE, text |-> <<"Sure.">>],
     [ok |-> TRUE, text |-> <<"Sure.", "Sources:", "slang.md">>],
     [ok |-> FALSE, text |-> << >>]}

\* What the places capability can answer.
MapsOutcomes == {"places", "empty", "error"}

NoResponse ==
    [response |-> << >>, contextUsed |-> << >>, contextFilesUsed |-> << >>,
     persona |-> "none", bangaloreContextActive |-> FALSE, aiPowered |-> FALSE,
     locationRecommendations |-> NoRecommendations]

NoRequest ==
    [query |-> << >>, persona |-> "none", bangaloreContextEnabled |-> FALSE,
     loadedContexts |-> << >>, location |-> "none"]

\* No system prompt built.  instructions: the persona whose paragraph the
\* prompt carries; contexts: the ids of the documents whose content it
\* carries, in order.
NoPrompt == [built |-> FALSE, instructions |-> "none", contexts |-> << >>]

\* Mutant of BuildSystemPrompt: the student persona gets no document.
BuildSystemPromptByPersona(persona, contextEnabled, contexts) ==
    [built |-> TRUE, instructions |-> persona,
     contexts |-> IF contextEnabled /\ Len(contexts) > 0 /\ persona # "student"
                  THEN contexts ELSE << >>]

\* OpenAIService.buildSystemPrompt
BuildSystemPrompt(persona, contextEnabled, contexts) ==
    [built |-> TRUE, instructions |-> persona,
     contexts |-> IF contextEnabled /\ Len(contexts) > 0 THEN contexts ELSE << >>]

\* A request before generateResponse is called.  pc: idle, awaitLoad,
\* awaitMaps, awaitAI, done.  ai: how the generative attempt went (none,
\* unavailable, rejected, error, ok).  The last five fields are history;
\* aiReturned is what the generative capability answered (nothing, error,
\* empty, text).
IdleRequest ==
    [pc |-> "idle", req |-> NoRequest, idx |-> 1, contextContents |-> << >>,
     foodContext |-> FALSE, cityContext |-> FALSE,
     locationRecommendations |-> NoRecommendations, resp |-> NoResponse,
     threw |-> FALSE, ai |-> "none", aiReturned |-> "nothing",
     aiCalls |-> 0, mapsCalls |-> 0, fallbackRuns |-> 0, loadedByMe |-> {},
     prompt |-> NoPrompt]

\* LocationService.getGenericRecommendations
GenericRecommendations ==
    <<"Look for nearby restaurants", "Check online reviews">>

\* LocationService.getContextOnlyRecommendations for the one location of the
\* model, which lies in the Koramangala box of the city document: the food
\* document's options, or the area's suggestion, or the generic pair.
GetContextOnlyRecommendations(foodContext, cityContext) ==
    IF ~foodContext /\ ~cityContext
    THEN [defined |-> TRUE, items |-> GenericRecommendations]
    ELSE IF foodContext
         THEN [defined |-> TRUE, items |-> <<"masala dosa">>]
         ELSE [defined |-> TRUE, items |-> <<"Explore local eateries in Koramangala">>]

(***************************************************************************)
(* LocationService (src/server/src/services/LocationService.ts), the       *)
(* fallback path in full.  Coordinates are in hundredths of a degree.  A   *)
(* city document is the set of area names its text mentions, a food        *)
(* document the sequence of food options its tables and text yield.        *)
(***************************************************************************)
\* areaPatterns of extractAreasFromContext, in table order.
AreaPatterns ==
    <<[name |-> "Koramangala", latRange |-> <<1293, 1295>>, lngRange |-> <<7760, 7763>>],
      [name |-> "Indiranagar", latRange |-> <<1297, 1299>>, lngRange |-> <<7763, 7765>>],
      [name |-> "HSR Layout", latRange |-> <<1290, 1293>>, lngRange |-> <<7763, 7766>>],
      [name |-> "Jayanagar", latRange |-> <<1292, 1294>>, lngRange |-> <<7757, 7760>>],
      [name |-> "Malleshwaram", latRange |-> <<1300, 1302>>, lngRange |-> <<7756, 7758>>],
      [name |-> "BTM Layout", latRange |-> <<1290, 1292>>, lngRange |-> <<7760, 7763>>],
      [name |-> "Whitefield", latRange |-> <<1296, 1299>>, lngRange |-> <<7773, 7776>>],
      [name |-> "Electronic City", latRange |-> <<1283, 1286>>, lngRange |-> <<7765, 7768>>],
      [name |-> "MG Road", latRange |-> <<1297, 1298>>, lngRange |-> <<7760, 7762>>],
      [name |-> "Basavanagudi", latRange |-> <<1294, 1296>>, lngRange |-> <<7756, 7758>>]>>

\* The default AreaInfo of determineAreaFromCoordinates.
UnknownArea == "Unknown Area"

\* LocationService.extractAreasFromContext: the table rows whose name the
\* city document mentions, in table order.
ExtractAreasFromContext(cityAreas) ==
    SelectSeq(AreaPatterns, LAMBDA a : a.name \in cityAreas)

\* The containment test of matchLocationToArea.
InBox(lat, lng, area) ==
    /\ lat >= area.latRange[1] /\ lat <= area.latRange[2]
    /\ lng >= area.lngRange[1] /\ lng <= area.lngRange[2]

\* LocationService.calculateDistance, squared and in half-hundredths: it
\* orders the areas as the square root does.
CalculateDistance(lat, lng, area) ==
    LET dLat == 2 * lat - (area.latRange[1] + area.latRange[2])
        dLng == 2 * lng - (area.lngRange[1] + area.lngRange[2])
    IN  dLat * dLat + dLng * dLng

\* The closest-area loop of matchLocationToArea: the index of the closest
\* of areas[1..n], the first one on ties.
RECURSIVE ClosestArea(_, _, _, _)
ClosestArea(lat, lng, areas, n) ==
    IF n = 1 THEN 1
    ELSE LET best == ClosestArea(lat, lng, areas, n - 1)
         IN  IF CalculateDistance(lat, lng, areas[n]) < CalculateDistance(lat, lng, areas[best])
             THEN n ELSE best

\* Mutant of MatchLocationToArea: the containment pass is left out.
MatchLocationNearestOnly(lat, lng, areas) ==
    IF Len(areas) > 0 THEN areas[ClosestArea(lat, lng, areas, Len(areas))].name
    ELSE UnknownArea

\* LocationService.matchLocationToArea, with determineAreaFromCoordinates'
\* default when it returns null: the name of the first area whose box holds
\* the point, or else of the closest area.
MatchLocationToArea(lat, lng, areas) ==
    LET k == FindFirst([j \in 1..Len(areas) |-> InBox(lat, lng, areas[j])])
    IN  IF k # 0 THEN areas[k].name
        ELSE IF Len(areas) > 0 THEN areas[ClosestArea(lat, lng, areas, Len(areas))].name
        ELSE UnknownArea

\* LocationService.determineAreaFromCoordinates
DetermineAreaFromCoordinates(lat, lng, cityDoc) ==
    IF cityDoc.loaded
    THEN MatchLocationToArea(lat, lng, ExtractAreasFromContext(cityDoc.areas))
    ELSE UnknownArea

\* LocationService.generateRecommendations: the suggestions, at most five
\* food options, or the area's own suggestion when there is no food option
\* and the area is known.
GenerateRecommendations(areaName, foodDoc) ==
    LET foodOptions == IF foodDoc.loaded THEN foodDoc.options ELSE << >>
        recommendations == SubSeq(foodOptions, 1, IF Len(foodOptions) < 5
                                                  THEN Len(foodOptions) ELSE 5)
    IN  IF Len(recommendations) = 0 /\ areaName # UnknownArea
        THEN <<"Explore local eateries in " \o areaName>>
        ELSE recommendations

\* LocationService.getContextOnlyRecommendations for any coordinates.
ContextOnlyRecommendations(lat, lng, foodDoc, cityDoc) ==
    IF ~foodDoc.loaded /\ ~cityDoc.loaded
    THEN GenericRecommendations
    ELSE GenerateRecommendations(DetermineAreaFromCoordinates(lat, lng, cityDoc), foodDoc)

\* Mutant of LiveAttempt: the error of the places capability is not caught.
LiveAttemptUncaught(maps) ==
    CASE maps = "unavailable" -> "skipped"
      [] maps = "places" -> "returned"
      [] maps = "empty" -> "empty"
      [] maps = "error" -> "thrown"

\* The live path of getRecommendations: skipped when the capability is
\* unavailable; its places returned; an empty answer or a caught error fall
\* through to the fallback path.
LiveAttempt(maps) ==
    CASE maps = "unavailable" -> "skipped"
      [] maps = "places" -> "returned"
      [] maps = "empty" -> "empty"
      [] maps = "error" -> "caught"

\* LocationService.getRecommendations, `maps` telling how the places
\* capability answers: unavailable, places, empty or error.
GetRecommendations(lat, lng, foodDoc, cityDoc, maps) ==
    IF LiveAttempt(maps) = "returned" THEN <<"live place">>
    ELSE IF LiveAttempt(maps) = "thrown" THEN << >>
    ELSE ContextOnlyRecommendations(lat, lng, foodDoc, cityDoc)

\* Inputs of a getRecommendations call.
GeoLats == {0, 1290, 1292, 1293, 1294, 1295, 1297}
GeoLngs == {0, 7757, 7758, 7760, 7761, 7763, 7764}
CityDocs ==
    {[loaded |-> FALSE, areas |-> {}],
     [loaded |-> TRUE, areas |-> {}],
     [loaded |-> TRUE, areas |-> {"Koramangala", "HSR Layout", "Jayanagar"}],
     [loaded |-> TRUE, areas |-> {AreaPatterns[k].name : k \in 1..Len(AreaPatterns)}]}
FoodDocs ==
    {[loaded |-> FALSE, options |-> << >>],
     [loaded |-> TRUE, options |-> << >>],
     [loaded |-> TRUE, options |-> <<"Masala Dosa", "Udupi Restaurant">>],
     [loaded |-> TRUE, options |-> <<"Masala Dosa", "Idli", "Vada", "Bisi Bele Bath",
                                    "Filter Coffee", "Darshini (Quick Service)">>]}
GeoMaps == {"unavailable"} \cup MapsOutcomes

NoGeoCall ==
    [pc |-> "idle", lat |-> 0, lng |-> 0, foodDoc |-> [loaded |-> FALSE, options |-> << >>],
     cityDoc |-> [loaded |-> FALSE, areas |-> {}], maps |-> "unavailable",
     area |-> "none", result |-> << >>, threw |-> FALSE]

\* getRecommendations is called and returns or throws.  area: the area the fallback
\* path resolved the coordinates to, "none" where it did not get that far.
GeoQuery(lat, lng, foodDoc, cityDoc, maps) ==
    /\ geo.pc = "idle"
    /\ geo' = [pc |-> "done", lat |-> lat, lng |-> lng, foodDoc |-> foodDoc,
               cityDoc |-> cityDoc, maps |-> maps,
               area |-> IF maps # "places" /\ (foodDoc.loaded \/ cityDoc.loaded)
                        THEN DetermineAreaFromCoordinates(lat, lng, cityDoc)
                        ELSE "none",
               result |-> GetRecommendations(lat, lng, foodDoc, cityDoc, maps),
               threw |-> LiveAttempt(maps) = "thrown"]
    /\ UNCHANGED <<aiAvailable, mapsAvailable, readable, loadedContexts, aiRequests,
                   aiCallLog, rq, tg, ls, sl, post, cm, sv>>
    /\ UNCHANGED rateVars

(***************************************************************************)
(* SlangInterpreter (src/server/src/services/SlangInterpreter.ts).  The    *)
(* dictionary is the sequence of its keys in insertion order; a phrase is  *)
(* a sequence of words.                                                    *)
(***************************************************************************)
\* String.prototype.toLowerCase, word by word.
ToLowerCase(phrase) ==
    [j \in 1..Len(phrase) |-> IF phrase[j] = "Hogi" THEN "hogi" ELSE phrase[j]]

\* explainSlang's null.
NoExplanation == <<"null">>

\* SlangInterpreter.explainSlang on a parsed dictionary: the key of the
\* entry it formats, or null.
ExplainSlang(slangEntries, phrase) ==
    LET phraseLower == ToLowerCase(phrase)
        exact == FindFirst([j \in 1..Len(slangEntries) |-> slangEntries[j] = phraseLower])
        partial == FindFirst([j \in 1..Len(slangEntries) |->
                                 \/ Includes(slangEntries[j], phraseLower)
                                 \/ Includes(phraseLower, slangEntries[j])])
    IN  IF exact # 0 THEN slangEntries[exact]
        ELSE IF partial # 0 THEN slangEntries[partial]
        ELSE NoExplanation

\* Keys of the slang document's tables (lower-cased by parseSlangContext),
\* and the dictionaries of up to three of them in any insertion order.
SlangKeys == {<<"hogi">>, <<"shortcut", "hogi">>, <<"sakkath">>, <<"oota", "aaytha">>}
SlangDictionaries ==
    {d \in UNION {[1..n -> SlangKeys] : n \in 0..3} :
        \A a, b \in 1..Len(d) : a # b => d[a] # d[b]}
SlangPhrases ==
    {<<"Hogi">>, <<"shortcut", "hogi">>, <<"the", "shortcut", "hogi">>, <<"oota">>,
     <<"nope">>}

NoSlangCall == [pc |-> "idle", slangEntries |-> << >>, phrase |-> << >>,
                result |-> NoExplanation]

\* explainSlang is called on an initialised interpreter and returns.
ExplainSlangCall(slangEntries, phrase) ==
    /\ sl.pc = "idle"
    /\ sl' = [pc |-> "done", slangEntries |-> slangEntries, phrase |-> phrase,
              result |-> ExplainSlang(slangEntries, phrase)]
    /\ UNCHANGED <<aiAvailable, mapsAvailable, readable, loadedContexts, aiRequests,
                   aiCallLog, rq, tg, ls, geo, post, cm, sv>>
    /\ UNCHANGED rateVars

\* LocationService.convertEnhancedToFoodRecommendations
LiveRecommendations == [defined |-> TRUE, items |-> <<"live place">>]

\* The return of line 73-81: the generated text with the envelope built
\* from the request.
GenerativeResponse(l, text) ==
    LET r == l.req
    IN  [response |-> text,
         contextUsed |-> IF r.bangaloreContextEnabled THEN r.loadedContexts ELSE << >>,
         contextFilesUsed |-> IF r.bangaloreContextEnabled
                              THEN ExtractContextFilesFromResponse(text, r.loadedContexts)
                              ELSE << >>,
         persona |-> r.persona,
         bangaloreContextActive |-> r.bangaloreContextEnabled,
         aiPowered |-> TRUE,
         locationRecommendations |-> l.locationRecommendations]

\* return this.generateFallbackResponse(...): the request ends on the
\* fallback path; `how` says why the generative attempt gave no text.
Fallback(l, st, how) ==
    [l EXCEPT !.pc = "done", !.ai = how, !.fallbackRuns = @ + 1,
              !.resp = GenerateFallbackResponse(st, l.req.query, l.req.persona,
                           l.req.bangaloreContextEnabled, l.req.loadedContexts,
                           l.locationRecommendations)]

\* Mutant of OnGenerativeError: the error is passed on to the caller.
OnGenerativeErrorRethrow(l, st) ==
    [l EXCEPT !.pc = "done", !.ai = "error", !.threw = TRUE]

\* Mutant of OnGenerativeError: the generative call is made once more
\* before giving up.
OnGenerativeErrorRetry(l, st) ==
    IF l.aiCalls < 2 THEN [l EXCEPT !.aiCalls = @ + 1]
    ELSE Fallback(l, st, "error")

\* The catch block of generateResponse (lines 82-86).
OnGenerativeError(l, st) == Fallback(l, st, "error")

\* The generative call returned `text` (lines 68-81; OpenAIService lines
\* 116-123 turn missing content into '').
OnGenerativeSuccess(l, st, text) ==
    [l EXCEPT !.pc = "done", !.ai = "ok", !.resp = GenerativeResponse(l, text)]

\* Lines 58-90 up to the wait for the generative call: the availability
\* test, then OpenAIService.generateResponse's isAllowed test.
AttemptGenerative(l, st) ==
    IF ~aiAvailable THEN Fallback(l, st, "unavailable")
    ELSE IF ~IsAllowed(aiRequests, OpenAIRateLimit, now) THEN Fallback(l, st, "rejected")
    ELSE [l EXCEPT !.pc = "awaitAI", !.aiCalls = @ + 1,
                   !.prompt = BuildSystemPrompt(l.req.persona,
                                  l.req.bangaloreContextEnabled, l.contextContents)]

\* Lines 52-56 with LocationService.getRecommendations up to its wait for
\* the places call: the food and city documents are taken from the store,
\* whatever the request's own list.
LocationStage(l, st) ==
    IF l.req.location # "none" /\ IsFoodQuery(l.req.query)
    THEN LET l1 == [l EXCEPT !.foodContext = GetContextForDomain(st, "food"),
                             !.cityContext = GetContextForDomain(st, "city")]
         IN  IF mapsAvailable
             THEN [l1 EXCEPT !.pc = "awaitMaps", !.mapsCalls = @ + 1]
             ELSE AttemptGenerative(
                      [l1 EXCEPT !.locationRecommendations =
                           GetContextOnlyRecommendations(l1.foodContext, l1.cityContext)],
                      st)
    ELSE AttemptGenerative(l, st)

\* The loop of lines 40-49 from position l.idx until it has to wait for a
\* document file (loadContext), then on to the location stage.
RECURSIVE LoadLoop(_, _)
LoadLoop(l, st) ==
    IF l.idx > Len(l.req.loadedContexts)
    THEN LocationStage(l, st)
    ELSE LET contextId == l.req.loadedContexts[l.idx]
         IN  IF IsContextLoaded(st, contextId)
             THEN LoadLoop([l EXCEPT !.idx = @ + 1,
                                     !.contextContents = Append(@, contextId)], st)
             ELSE [l EXCEPT !.pc = "awaitLoad"]

\* ContextManager.loadContext once its file read has ended: the store after
\* it.
LoadContext(st, fileId) ==
    IF fileId \in ContextFileIds /\ fileId \in readable THEN st \cup {fileId} ELSE st

\* History: an external generative call is logged when it is issued.
LogCalls(old, new) ==
    aiCallLog' = IF new.aiCalls > old.aiCalls THEN Append(aiCallLog, now) ELSE aiCallLog

\* generateResponse is called with `request`.
StartQuery(r, request) ==
    /\ rq[r].pc = "idle"
    /\ LET new == LoadLoop([IdleRequest EXCEPT !.req = request], loadedContexts)
       IN  /\ rq' = [rq EXCEPT ![r] = new]
           /\ LogCalls(rq[r], new)
    /\ UNCHANGED <<aiAvailable, mapsAvailable, readable, loadedContexts, aiRequests, tg, ls, geo, sl, post, cm, sv>>
    /\ UNCHANGED rateVars

\* The file read of loadContext(contextId) ends; getContextForDomain, and
\* the loop goes on.
LoadDone(r) ==
    /\ rq[r].pc = "awaitLoad"
    /\ LET l == rq[r]
           contextId == l.req.loadedContexts[l.idx]
           st == LoadContext(loadedContexts, contextId)
           l1 == [l EXCEPT !.idx = @ + 1,
                           !.contextContents =
                               IF GetContextForDomain(st, contextId)
                               THEN Append(@, contextId) ELSE @,
                           !.loadedByMe = @ \cup (st \ loadedContexts)]
           new == LoadLoop(l1, st)
       IN  /\ loadedContexts' = st
           /\ rq' = [rq EXCEPT ![r] = new]
           /\ LogCalls(l, new)
    /\ UNCHANGED <<aiAvailable, mapsAvailable, readable, aiRequests, tg, ls, geo, sl, post, cm, sv>>
    /\ UNCHANGED rateVars

\* The places call ends (LocationService lines 66-88): live candidates, or
\* the context-only ones from the documents taken before the call.
MapsDone(r, outcome) ==
    /\ rq[r].pc = "awaitMaps"
    /\ LET l == rq[r]
           recs == IF outcome = "places" THEN LiveRecommendations
                   ELSE GetContextOnlyRecommendations(l.foodContext, l.cityContext)
           new == AttemptGenerative([l EXCEPT !.locationRecommendations = recs],
                                    loadedContexts)
       IN  /\ rq' = [rq EXCEPT ![r] = new]
           /\ LogCalls(l, new)
    /\ UNCHANGED <<aiAvailable, mapsAvailable, readable, loadedContexts, aiRequests, tg, ls, geo, sl, post, cm, sv>>
    /\ UNCHANGED rateVars

\* The generative call ends, with text or with an error.
AIDone(r, outcome) ==
    /\ rq[r].pc = "awaitAI"
    /\ LET l == rq[r]
           l1 == [l EXCEPT !.aiReturned = IF ~outcome.ok THEN "error"
                                          ELSE IF outcome.text = << >> THEN "empty"
                                          ELSE "text"]
           new == IF outcome.ok THEN OnGenerativeSuccess(l1, loadedContexts, outcome.text)
                  ELSE OnGenerativeError(l1, loadedContexts)
       IN  /\ rq' = [rq EXCEPT ![r] = new]
           /\ LogCalls(l, new)
    /\ UNCHANGED <<aiAvailable, mapsAvailable, readable, loadedContexts, aiRequests, tg, ls, geo, sl, post, cm, sv>>
    /\ UNCHANGED rateVars

\* The caller has its response; the slot takes the next request.
Finish(r) ==
    /\ rq[r].pc = "done"
    /\ rq' = [rq EXCEPT ![r] = IdleRequest]
    /\ UNCHANGED <<aiAvailable, mapsAvailable, readable, loadedContexts, aiRequests,
                   aiCallLog, tg, ls, geo, sl, post, cm, sv>>
    /\ UNCHANGED rateVars

\* No toggleContext call yet.  error: the error the call surfaced to its
\* caller, "none" when it returned a result.
\* No toggle yet.  stored: whether the store held the document when the
\* call returned.
IdleToggle ==
    [pc |-> "idle", id |-> "none", isLoaded |-> FALSE, error |-> "none",
     stored |-> FALSE]

\* ContextManager.getAvailableContexts: isLoaded of every configured
\* document.
GetAvailableContexts(st) == [id \in ContextFileIds |-> id \in st]

\* No getAvailableContexts call yet.  count: calls so far (2 stands for two
\* or more); toggled: a toggle ran since the last call; sameEpoch: no toggle
\* ran between the last two calls.
NoListing ==
    [count |-> 0, prev |-> GetAvailableContexts({}), cur |-> GetAvailableContexts({}),
     toggled |-> FALSE, sameEpoch |-> FALSE]

\* ContextManager.toggleContext up to its wait: a loaded document is
\* unloaded at once, another one is loaded from its file.
ToggleContext(fileId) ==
    /\ tg.pc = "idle"
    /\ IF IsContextLoaded(loadedContexts, fileId)
       THEN /\ loadedContexts' = loadedContexts \ {fileId}
            /\ tg' = [pc |-> "idle", id |-> fileId, isLoaded |-> FALSE,
                      error |-> "none", stored |-> FALSE]
       ELSE /\ loadedContexts' = loadedContexts
            /\ tg' = [pc |-> "awaitLoad", id |-> fileId, isLoaded |-> FALSE,
                      error |-> "none", stored |-> FALSE]
    /\ ls' = [ls EXCEPT !.toggled = TRUE]
    /\ UNCHANGED <<aiAvailable, mapsAvailable, readable, aiRequests, aiCallLog, rq,
                   geo, sl, post, cm, sv>>
    /\ UNCHANGED rateVars

\* The file read of the toggle's loadContext ends.
ToggleLoadDone ==
    /\ tg.pc = "awaitLoad"
    /\ loadedContexts' = LoadContext(loadedContexts, tg.id)
    /\ tg' = [pc |-> "idle", id |-> tg.id, isLoaded |-> TRUE, error |-> "none",
              stored |-> IsContextLoaded(LoadContext(loadedContexts, tg.id), tg.id)]
    /\ ls' = [ls EXCEPT !.toggled = TRUE]
    /\ UNCHANGED <<aiAvailable, mapsAvailable, readable, aiRequests, aiCallLog, rq,
                   geo, sl, post, cm, sv>>
    /\ UNCHANGED rateVars

\* GET /contexts: getAvailableContexts answers from the store as it is.
ListContexts ==
    /\ ls' = [count |-> IF ls.count = 0 THEN 1 ELSE 2,
              prev |-> ls.cur,
              cur |-> GetAvailableContexts(loadedContexts),
              toggled |-> FALSE,
              sameEpoch |-> ls.count > 0 /\ ~ls.toggled]
    /\ UNCHANGED <<aiAvailable, mapsAvailable, readable, loadedContexts, aiRequests,
                   aiCallLog, rq, tg, geo, sl, post, cm, sv>>
    /\ UNCHANGED rateVars

(***************************************************************************)
(* POST /query (validation.ts): rateLimitMiddleware('query'),              *)
(* validateRequestBody, validateQueryRequest, then the handler.            *)
(***************************************************************************)
\* Request bodies.  present: the body is a JSON object; query: undefined,
\* or its text ("" empty, " " blanks only); location: undefined or the
\* coordinates in hundredths of a degree.
NoLocation == [defined |-> FALSE, lat |-> 0, lng |-> 0]
QueryBodies ==
    {[present |-> TRUE, query |-> "dosa", persona |-> "undefined",
      loadedContexts |-> <<"slang">>, location |-> NoLocation],
     [present |-> TRUE, query |-> "dosa", persona |-> "student",
      loadedContexts |-> << >>,
      location |-> [defined |-> TRUE, lat |-> 1294, lng |-> 7761]],
     [present |-> FALSE, query |-> "undefined", persona |-> "undefined",
      loadedContexts |-> << >>, location |-> NoLocation],
     [present |-> TRUE, query |-> "undefined", persona |-> "newbie",
      loadedContexts |-> <<"slang">>, location |-> NoLocation],
     [present |-> TRUE, query |-> "", persona |-> "newbie",
      loadedContexts |-> <<"slang">>, location |-> NoLocation],
     [present |-> TRUE, query |-> " ", persona |-> "newbie",
      loadedContexts |-> <<"slang">>, location |-> NoLocation],
     [present |-> TRUE, query |-> "dosa", persona |-> "pirate",
      loadedContexts |-> <<"slang">>, location |-> NoLocation],
     [present |-> TRUE, query |-> "dosa", persona |-> "newbie",
      loadedContexts |-> <<"slang">>,
      location |-> [defined |-> TRUE, lat |-> 9001, lng |-> 7761]],
     [present |-> TRUE, query |-> "dosa", persona |-> "newbie",
      loadedContexts |-> <<"slang">>,
      location |-> [defined |-> TRUE, lat |-> 1294, lng |-> -18001]]}

\* VALID_PERSONAS
VALID_PERSONAS == {"newbie", "student", "it-professional", "tourist"}

\* validateRequestBody: the status it answers with, 0 when it calls next().
ValidateRequestBody(body) == IF ~body.present THEN 400 ELSE 0

\* validateQueryRequest: the status it answers with, 0 when it calls next().
ValidateQueryRequest(body) ==
    IF body.query = "undefined" THEN 400
    ELSE IF body.query \in {"", " "} THEN 400
    ELSE IF body.persona # "undefined" /\ body.persona \notin VALID_PERSONAS THEN 400
    ELSE IF body.location.defined /\ (body.location.lat < -9000 \/ body.location.lat > 9000)
         THEN 400
    ELSE IF body.location.defined /\ (body.location.lng < -18000 \/ body.location.lng > 18000)
         THEN 400
    ELSE 0

\* Mutant of QueryPipeline: the handler runs whatever the limiter said.
QueryPipelineUnlimited(allowed, body) ==
    IF ValidateRequestBody(body) # 0 THEN ValidateRequestBody(body)
    ELSE IF ValidateQueryRequest(body) # 0 THEN ValidateQueryRequest(body)
    ELSE 0

\* The middleware chain of POST /query, `allowed` being the limiter's
\* answer: the status of the middleware that answered, 0 when the handler
\* is reached.
QueryPipeline(allowed, body) ==
    IF ~allowed THEN 429
    ELSE IF ValidateRequestBody(body) # 0 THEN ValidateRequestBody(body)
    ELSE IF ValidateQueryRequest(body) # 0 THEN ValidateQueryRequest(body)
    ELSE 0

\* The QueryRequest the handler builds from a body that passed.
HandlerRequest(body) ==
    [query |-> <<body.query>>,
     persona |-> IF body.persona = "undefined" THEN "newbie" ELSE body.persona,
     bangaloreContextEnabled |-> TRUE,
     loadedContexts |-> body.loadedContexts,
     location |-> IF body.location.defined THEN "koramangala" ELSE "none"]

\* No POST /query yet.  status: the status a middleware answered with, 0
\* when the handler was reached; entered: generateResponse was called;
\* untouched: the call left the requests, the store and the log of external
\* calls as they were.
NoPost ==
    [n |-> 0, body |-> [present |-> FALSE, query |-> "undefined",
                        persona |-> "undefined", loadedContexts |-> << >>,
                        location |-> NoLocation],
     status |-> 0, entered |-> FALSE, untouched |-> TRUE]

\* POST /query of `identifier` with `body`, up to the first wait of
\* generateResponse.
PostQuery(identifier, body) ==
    /\ rq[1].pc = "idle"
    /\ RateLimitStep("query", identifier)
    /\ LET res == CheckLimit(requests["query"][identifier], configs["query"], now)
           status == QueryPipeline(res.allowed, body)
           new == IF status = 0
                  THEN LoadLoop([IdleRequest EXCEPT !.req = HandlerRequest(body)],
                                loadedContexts)
                  ELSE rq[1]
       IN  /\ rq' = [rq EXCEPT ![1] = new]
           /\ LogCalls(rq[1], new)
           /\ post' = [n |-> IF post.n = 0 THEN 1 ELSE 2, body |-> body,
                        status |-> status, entered |-> status = 0,
                        untouched |-> rq' = rq /\ aiCallLog' = aiCallLog]
    /\ UNCHANGED <<aiAvailable, mapsAvailable, readable, loadedContexts, aiRequests,
                   tg, ls, geo, sl, cm, sv>>

(***************************************************************************)
(* ContextManager (src/unnamed/part_008) with the content of one document: *)
(* loadContext, unloadContext, toggleContext and searchInContexts running  *)
(* concurrently while the file changes on disk.                            *)
(***************************************************************************)
\* The document the calls are about.
DocId == "slang"

\* What the file can hold: one of two contents, or nothing readable.
DiskStates == {"v1", "v2", "missing"}

\* parseMarkdownSections of each content.
ParseMarkdownSections ==
    [v1 |-> <<[name |-> "intro", text |-> <<"old", "phrases">>],
              [name |-> "phrases", text |-> <<"sakkath", "old">>]>>,
     v2 |-> <<[name |-> "intro", text |-> <<"new", "phrases">>],
              [name |-> "phrases", text |-> <<"sakkath", "new">>]>>]

\* The store's entry for the document: absent, or a ContextContent.
Absent == [loaded |-> FALSE, sections |-> << >>]

\* Mutant of SetDocument: the sections of a held document are overwritten
\* one by one, the first before the read of the second has been parsed.
SetDocumentInPlace(entry, sections) ==
    IF entry.loaded
    THEN [loaded |-> TRUE, sections |-> <<sections[1], entry.sections[2]>>]
    ELSE [loaded |-> TRUE, sections |-> sections]

\* this.loadedContexts.set(fileId, contextContent): the entry is replaced by
\* a new object.
SetDocument(entry, sections) == [loaded |-> TRUE, sections |-> sections]

\* searchInContexts(query, [DocId]) on the store's entry.
SearchDocument(entry, query) ==
    IF entry.loaded THEN SearchSections(DocId, entry.sections, query) ELSE << >>

\* A call slot.  op: loadContext called directly ("load") or by
\* toggleContext ("toggle"); content: what readFile gave ("error" when it
\* threw); returned/isLoaded: the toggle's answer.
IdleCall ==
    [pc |-> "idle", op |-> "none", content |-> "none", returned |-> FALSE,
     isLoaded |-> FALSE]
CallSlots == {1, 2}

\* No search yet.  last: the content the most recent completed load had
\* stored when the search ran ("none" when the document was not held).
NoSearch == [done |-> FALSE, query |-> << >>, results |-> << >>, last |-> "none"]

\* History of a pair of toggles: the document's loaded state before them
\* and the slots that have started theirs.
NoPair == [active |-> FALSE, before |-> FALSE, started |-> {}]

\* The manager after construction; the file holds some content or is
\* missing.  last: the content stored by the most recent completed load.
NewContextManager ==
    [disk |-> "v1", held |-> Absent, last |-> "none",
     call |-> [p \in CallSlots |-> IdleCall], search |-> NoSearch, pair |-> NoPair]

\* The file is rewritten, removed or made unreadable.
WriteFile(v) ==
    /\ cm.disk # v
    /\ cm' = [cm EXCEPT !.disk = v]
    /\ UNCHANGED <<aiAvailable, mapsAvailable, readable, loadedContexts, aiRequests,
                   aiCallLog, rq, tg, ls, geo, sl, post, sv>>
    /\ UNCHANGED rateVars

\* loadContext(DocId) is called and reaches its readFile.
StartLoad(p) ==
    /\ ~cm.pair.active
    /\ cm.call[p].pc = "idle"
    /\ cm' = [cm EXCEPT !.call[p] = [IdleCall EXCEPT !.pc = "reading", !.op = "load"]]
    /\ UNCHANGED <<aiAvailable, mapsAvailable, readable, loadedContexts, aiRequests,
                   aiCallLog, rq, tg, ls, geo, sl, post, sv>>
    /\ UNCHANGED rateVars

\* toggleContext(DocId) up to its wait: a held document is deleted and the
\* call returns false; otherwise loadContext is called and reaches its
\* readFile.
StartToggle(p) ==
    /\ cm.call[p].pc = "idle"
    /\ cm.pair.active => p \notin cm.pair.started
    /\ LET c == IF cm.held.loaded
                THEN [IdleCall EXCEPT !.op = "toggle", !.returned = TRUE,
                                      !.isLoaded = FALSE]
                ELSE [IdleCall EXCEPT !.pc = "reading", !.op = "toggle"]
       IN  cm' = [cm EXCEPT !.call[p] = c,
                            !.held = IF cm.held.loaded THEN Absent ELSE @,
                            !.last = IF cm.held.loaded THEN "none" ELSE @,
                            !.pair.started = IF cm.pair.active THEN @ \cup {p} ELSE @]
    /\ UNCHANGED <<aiAvailable, mapsAvailable, readable, loadedContexts, aiRequests,
                   aiCallLog, rq, tg, ls, geo, sl, post, sv>>
    /\ UNCHANGED rateVars

\* The file system serves a readFile: the content is the file's content at
\* that moment, or an error.
ReadFile(p) ==
    /\ cm.call[p].pc = "reading"
    /\ cm' = [cm EXCEPT !.call[p].pc = "read",
                        !.call[p].content = IF cm.disk = "missing" THEN "error"
                                            ELSE cm.disk]
    /\ UNCHANGED <<aiAvailable, mapsAvailable, readable, loadedContexts, aiRequests,
                   aiCallLog, rq, tg, ls, geo, sl, post, sv>>
    /\ UNCHANGED rateVars

\* loadContext resumes after its readFile: the content is parsed and
\* stored, or the error is caught; a toggle then returns true.
ReadDone(p) ==
    /\ cm.call[p].pc = "read"
    /\ LET c == cm.call[p]
           ok == c.content # "error"
       IN  cm' = [cm EXCEPT
                    !.held = IF ok THEN SetDocument(@, ParseMarkdownSections[c.content])
                             ELSE @,
                    !.last = IF ok THEN c.content ELSE @,
                    !.call[p] = [c EXCEPT !.pc = "idle",
                                          !.returned = c.op = "toggle",
                                          !.isLoaded = c.op = "toggle"]]
    /\ UNCHANGED <<aiAvailable, mapsAvailable, readable, loadedContexts, aiRequests,
                   aiCallLog, rq, tg, ls, geo, sl, post, sv>>
    /\ UNCHANGED rateVars

\* searchInContexts(query, [DocId]): one synchronous call.
SearchCall(query) ==
    /\ cm' = [cm EXCEPT !.search = [done |-> TRUE, query |-> query,
                                    results |-> SearchDocument(cm.held, query),
                                    last |-> cm.last]]
    /\ UNCHANGED <<aiAvailable, mapsAvailable, readable, loadedContexts, aiRequests,
                   aiCallLog, rq, tg, ls, geo, sl, post, sv>>
    /\ UNCHANGED rateVars

\* History: with no call in progress, a pair of toggles is about to be
\* issued.
BeginPair ==
    /\ ~cm.pair.active
    /\ \A p \in CallSlots : cm.call[p].pc = "idle"
    /\ cm' = [cm EXCEPT !.pair = [active |-> TRUE, before |-> cm.held.loaded,
                                  started |-> {}]]
    /\ UNCHANGED <<aiAvailable, mapsAvailable, readable, loadedContexts, aiRequests,
                   aiCallLog, rq, tg, ls, geo, sl, post, sv>>
    /\ UNCHANGED rateVars

(***************************************************************************)
(* The standalone serverless handler (src/unnamed/part_003, part_004):     *)
(* contextCache and loadContextContent, called by concurrent requests.     *)
(***************************************************************************)
\* contextFiles, in array order.
HandlerContextFiles == <<"city", "slang", "food", "traffic", "etiquette">>

\* A loadContextContent call.  idx: the file being read; returned: the call
\* has returned; keys: the keys of the cache it returned, as its caller
\* finds them.
IdleLoad == [pc |-> "idle", idx |-> 0, returned |-> FALSE, keys |-> {}]

\* let contextCache = {}: the ids that have an entry, and those whose entry
\* is the empty string; two requests may call loadContextContent.
NewHandler ==
    [cache |-> {}, empty |-> {}, call |-> [p \in {1, 2} |-> IdleLoad]]

\* Object.keys(contextCache).length > 0
CacheIsLoaded(cache) == cache # {}

\* loadContextContent is called: a cache with an entry is returned as it
\* is; otherwise the first file's read is issued.
LoadContextContent(p) ==
    /\ sv.call[p].pc = "idle"
    /\ sv' = [sv EXCEPT !.call[p] =
                 IF CacheIsLoaded(sv.cache)
                 THEN [pc |-> "idle", idx |-> 0, returned |-> TRUE, keys |-> sv.cache]
                 ELSE [pc |-> "reading", idx |-> 1, returned |-> FALSE, keys |-> {}]]
    /\ UNCHANGED <<aiAvailable, mapsAvailable, readable, loadedContexts, aiRequests,
                   aiCallLog, rq, tg, ls, geo, sl, post, cm>>
    /\ UNCHANGED rateVars

\* A readFile of the loop ends, with the content or with an error: the
\* entry is written, and the next read is issued or the cache returned.
HandlerReadDone(p, ok) ==
    /\ sv.call[p].pc = "reading"
    /\ LET c == sv.call[p]
           id == HandlerContextFiles[c.idx]
           cache == sv.cache \cup {id}
       IN  sv' = [sv EXCEPT
                    !.cache = cache,
                    !.empty = IF ok THEN @ \ {id} ELSE @ \cup {id},
                    !.call[p] = IF c.idx < Len(HandlerContextFiles)
                                THEN [c EXCEPT !.idx = @ + 1]
                                ELSE [pc |-> "idle", idx |-> 0, returned |-> TRUE,
                                      keys |-> cache]]
    /\ UNCHANGED <<aiAvailable, mapsAvailable, readable, loadedContexts, aiRequests,
                   aiCallLog, rq, tg, ls, geo, sl, post, cm>>
    /\ UNCHANGED rateVars

\* The orchestrator's variables after construction, for a deployment with
\* the given capabilities and readable files.
OrchInit(slots, avail, maps, files) ==
    /\ aiAvailable \in avail
    /\ mapsAvailable \in maps
    /\ readable \in files
    /\ loadedContexts = {}
    /\ aiRequests = << >>
    /\ aiCallLog = << >>
    /\ rq = [r \in slots |-> IdleRequest]
    /\ tg = IdleToggle
    /\ ls = NoListing
    /\ geo = NoGeoCall
    /\ sl = NoSlangCall
    /\ post = NoPost
    /\ cm = NewContextManager
    /\ sv = NewHandler

(***************************************************************************)
(* Specifications.                                                         *)
(***************************************************************************)
\* The rate limiter under the clock.
SpecRateInit == RateInit /\ OrchInit({1}, {FALSE}, {FALSE}, {ContextFileIds})
SpecRate == SpecRateInit /\ [][RateNext]_vars

\* The orchestrator: one request at a time, any request, while documents
\* are toggled.
Init ==
    /\ RateInit
    /\ OrchInit({1}, BOOLEAN, BOOLEAN, {ContextFileIds, ContextFileIds \ {"food"}})

Next ==
    \/ \E r \in DOMAIN rq, request \in QueryRequests : StartQuery(r, request)
    \/ \E r \in DOMAIN rq : LoadDone(r)
    \/ \E r \in DOMAIN rq, outcome \in MapsOutcomes : MapsDone(r, outcome)
    \/ \E r \in DOMAIN rq, outcome \in AIOutcomes : AIDone(r, outcome)
    \/ \E fileId \in ToggleIds : ToggleContext(fileId)
    \/ ToggleLoadDone

Spec == Init /\ [][Next]_vars

\* Two requests with the same kind of input share the store, with no
\* external capability configured.
SharedRequests ==
    {request \in QueryRequests :
        /\ request.query = <<"dosa">>
        /\ request.persona = "newbie"
        /\ request.bangaloreContextEnabled
        /\ request.location # "none"}

SharedInit ==
    /\ RateInit
    /\ OrchInit({1, 2}, {FALSE}, {FALSE}, {ContextFileIds})

SharedNext ==
    \/ \E r \in DOMAIN rq, request \in SharedRequests : StartQuery(r, request)
    \/ \E r \in DOMAIN rq : LoadDone(r)
    \/ \E fileId \in ToggleIds : ToggleContext(fileId)
    \/ ToggleLoadDone

SpecShared == SharedInit /\ [][SharedNext]_vars

\* The document store under toggles of any id, listings and queries, one
\* request after the other, with no external capability configured.
AnyToggleIds == ToggleIds \cup {"bogus"}

StoreRequests ==
    {request \in QueryRequests :
        /\ request.query = <<"sakkath">>
        /\ request.persona = "newbie"
        /\ request.loadedContexts # << >>
        /\ request.location = "none"}

StoreInit ==
    /\ RateInit
    /\ OrchInit({1}, {FALSE}, {FALSE}, {ContextFileIds, ContextFileIds \ {"food"}})

StoreNext ==
    \/ \E request \in StoreRequests : StartQuery(1, request)
    \/ LoadDone(1)
    \/ Finish(1)
    \/ \E fileId \in AnyToggleIds : ToggleContext(fileId)
    \/ ToggleLoadDone
    \/ ListContexts

SpecStore == StoreInit /\ [][StoreNext]_vars

\* LocationService.getRecommendations on any input.
GeoInit ==
    /\ RateInit
    /\ OrchInit({1}, {FALSE}, {FALSE}, {ContextFileIds})

GeoNext ==
    \E lat \in GeoLats, lng \in GeoLngs, foodDoc \in FoodDocs, cityDoc \in CityDocs,
       maps \in GeoMaps : GeoQuery(lat, lng, foodDoc, cityDoc, maps)

SpecGeo == GeoInit /\ [][GeoNext]_vars

\* SlangInterpreter.explainSlang on any dictionary and phrase.
SlangInit ==
    /\ RateInit
    /\ OrchInit({1}, {FALSE}, {FALSE}, {ContextFileIds})

SlangNext ==
    \E slangEntries \in SlangDictionaries, phrase \in SlangPhrases :
        ExplainSlangCall(slangEntries, phrase)

SpecSlang == SlangInit /\ [][SlangNext]_vars

\* Two requests of any persona side by side on one store that nobody
\* toggles.
PersonaRequests ==
    {request \in QueryRequests :
        /\ request.query \in {<<"meaning">>, <<"sakkath">>}
        /\ request.location = "none"}

PersonaInit ==
    /\ RateInit
    /\ OrchInit({1, 2}, BOOLEAN, {FALSE}, {ContextFileIds, ContextFileIds \ {"food"}})

PersonaNext ==
    \/ \E r \in DOMAIN rq, request \in PersonaRequests : StartQuery(r, request)
    \/ \E r \in DOMAIN rq : LoadDone(r)
    \/ \E r \in DOMAIN rq, outcome \in AIOutcomes : AIDone(r, outcome)

SpecPersona == PersonaInit /\ [][PersonaNext]_vars

\* POST /query under the clock, one request after the other, for one
\* identifier.
RouteInit ==
    /\ RateInit
    /\ OrchInit({1}, BOOLEAN, {FALSE}, {ContextFileIds})

RouteNext ==
    \/ Tick(MaxTime)
    \/ \E body \in QueryBodies : PostQuery("s1", body)
    \/ LoadDone(1)
    \/ \E outcome \in AIOutcomes : AIDone(1, outcome)
    \/ Finish(1)

SpecRoute == RouteInit /\ [][RouteNext]_vars

\* The document store with content: loads, toggles and searches running
\* concurrently while the file changes.
DocsInit ==
    /\ RateInit
    /\ OrchInit({1}, {FALSE}, {FALSE}, {ContextFileIds})

DocsNext ==
    \/ \E v \in DiskStates : WriteFile(v)
    \/ \E p \in CallSlots : StartLoad(p)
    \/ \E p \in CallSlots : StartToggle(p)
    \/ \E p \in CallSlots : ReadFile(p)
    \/ \E p \in CallSlots : ReadDone(p)
    \/ \E query \in {<<"phrases">>, <<"sakkath">>, <<"old">>, <<"new">>} : SearchCall(query)
    \/ BeginPair

SpecDocs == DocsInit /\ [][DocsNext]_vars

\* The serverless handler: requests calling loadContextContent
\* concurrently.
HandlerInit ==
    /\ RateInit
    /\ OrchInit({1}, {FALSE}, {FALSE}, {ContextFileIds})

HandlerNext ==
    \/ \E p \in DOMAIN sv.call : LoadContextContent(p)
    \/ \E p \in DOMAIN sv.call, ok \in BOOLEAN : HandlerReadDone(p, ok)

SpecHandler == HandlerInit /\ [][HandlerNext]_vars

\* One request after the other with the generative capability configured,
\* under the clock: as many requests as the generative limiter's maxRequests
\* and one more.
GenRequest ==
    [query |-> <<"sakkath">>, persona |-> "newbie", bangaloreContextEnabled |-> TRUE,
     loadedContexts |-> << >>, location |-> "none"]

GenInit ==
    /\ RateInit
    /\ OrchInit({1}, {TRUE}, {FALSE}, {ContextFileIds})

GenNext ==
    \/ Tick(GenHorizon)
    \/ Len(aiCallLog) <= OPENAI_MAX_REQUESTS /\ StartQuery(1, GenRequest)
    \/ \E outcome \in AIOutcomes : AIDone(1, outcome)
    \/ Finish(1)

SpecGen == GenInit /\ [][GenNext]_vars

\* One request, any request, where every read of a local file ends; nothing
\* makes an external capability answer.
LiveNext ==
    \/ \E request \in QueryRequests : StartQuery(1, request)
    \/ LoadDone(1)
    \/ \E outcome \in MapsOutcomes : MapsDone(1, outcome)
    \/ \E outcome \in AIOutcomes : AIDone(1, outcome)

SpecLive == Init /\ [][LiveNext]_vars /\ WF_vars(LoadDone(1))



(***************************************************************************)
(* Claims about the rate limiter, checked under SpecRate.                  *)
(***************************************************************************)
Pairs == Endpoints \X Identifiers

\* C1: for every endpoint and identifier, counting the checkLimit calls of
\* the pair from its empty window, every call up to the maxRequests-th made
\* less than windowMs after the first returns allowed=true and every later
\* call inside that window (the (maxRequests+1)-th in particular) returns
\* allowed=false; and a checkLimit made once the clock has reached the
\* oldest recorded instant plus windowMs returns allowed=true.
C1_WindowFillsThenReopens ==
    lastResult.endpoint \in Endpoints =>
        LET e == lastResult.endpoint
            i == lastResult.identifier
            k == nCalls[e][i]
            cfg == configs[e]
        IN  /\ (lastResult.at < firstAt[e][i] + cfg.windowMs) =>
                  /\ (k <= cfg.maxRequests => lastResult.allowed)
                  /\ (k > cfg.maxRequests => ~lastResult.allowed)
            /\ (/\ lastResult.prev # << >>
                /\ lastResult.at >= lastResult.prev[1] + cfg.windowMs)
                  => lastResult.allowed

\* Witness of C1: a pair whose first maxRequests+1 calls were maxRequests
\* allowed ones and a rejected one, and whose next call, made after the
\* oldest instant expired, is allowed again.
C1_Witness ==
    /\ lastResult.endpoint \in Endpoints
    /\ LET e == lastResult.endpoint
           i == lastResult.identifier
           cfg == configs[e]
       IN  /\ nCalls[e][i] = cfg.maxRequests + 2
           /\ Len(allowedLog[e][i]) = cfg.maxRequests + 1
           /\ Len(lastResult.prev) = cfg.maxRequests
           /\ lastResult.at >= lastResult.prev[1] + cfg.windowMs
           /\ lastResult.allowed

\* C11: every rejected checkLimit result carries retryAfter >= 1; a
\* checkLimit of the same pair made at least retryAfter seconds after a
\* rejection, no call of the pair having been allowed in between, returns
\* allowed=true; and with the default 'query' configuration (30 per
\* 60,000 ms) 30 calls at one instant are allowed and a 31st call inside
\* the window is rejected with retryAfter > 0.
C11_RetryAfterIsEnough ==
    /\ (lastResult.endpoint \in Endpoints /\ ~lastResult.allowed) =>
           lastResult.retryAfter >= 1
    /\ (/\ lastResult.rej.seen
        /\ lastResult.rej.clean
        /\ lastResult.at >= lastResult.rej.at + lastResult.rej.retryAfter * 1000)
           => lastResult.allowed
    /\ LET first == Burst(<< >>, DEFAULT_QUERY_LIMIT, 0, DEFAULT_QUERY_LIMIT.maxRequests)
           next == CheckLimit(first[Len(first)].timestamps, DEFAULT_QUERY_LIMIT, now)
       IN  /\ \A k \in 1..Len(first) : first[k].allowed
           /\ ~next.allowed
           /\ next.retryAfter > 0

\* Witness of C11: a pair was rejected, no call of it was allowed until the
\* announced retryAfter seconds had passed, and the call made then is
\* allowed.
C11_Witness ==
    /\ lastResult.endpoint \in Endpoints
    /\ lastResult.rej.seen
    /\ lastResult.rej.clean
    /\ lastResult.rej.retryAfter >= 1
    /\ lastResult.at >= lastResult.rej.at + lastResult.rej.retryAfter * 1000
    /\ lastResult.allowed

\* C24: windows are kept per (endpoint, identifier) pair: what a check of
\* a pair answers (allowed, remaining) is what the pair's own allowed
\* calls make it, whatever calls were made for other identifiers or other
\* endpoints.
C24_WindowsArePerPair ==
    \A p \in Pairs :
        LET own == allowedLog[p[1]][p[2]]
            kept == requests[p[1]][p[2]]
            cfg == configs[p[1]]
        IN  /\ FilterWindow(kept, now - cfg.windowMs) = FilterWindow(own, now - cfg.windowMs)
            /\ CheckLimit(kept, cfg, now).allowed = CheckLimit(own, cfg, now).allowed
            /\ CheckLimit(kept, cfg, now).remaining = CheckLimit(own, cfg, now).remaining

\* C24 witness: on one endpoint an identifier has used up its window while
\* the other identifier, called after it, still has room, and the same
\* identifier still has room on the other endpoint.
C24_Witness ==
    /\ ~CheckLimit(requests["query"]["s1"], configs["query"], now).allowed
    /\ nCalls["query"]["s2"] > 0
    /\ lastResult.endpoint = "query" /\ lastResult.identifier = "s2"
    /\ CheckLimit(requests["query"]["s2"], configs["query"], now).allowed
    /\ CheckLimit(requests["voice"]["s1"], configs["voice"], now).allowed

\* The first instant from t on at which a check of the identifier would be
\* allowed: the answer can change only when a stored instant leaves the
\* window.
NextAllowedAt(timestamps, config, t) ==
    LET cand == {t} \cup {timestamps[k] + config.windowMs : k \in 1..Len(timestamps)}
        ok == {u \in cand : u >= t /\ IsAllowed(timestamps, config, u)}
    IN  CHOOSE u \in ok : \A v \in ok : u <= v

\* C26: a rejected checkLimit records nothing: the list stored for the
\* identifier is the one stored before the call, and the instant at which
\* the identifier is next allowed is not moved, however often the rejected
\* call is repeated.
C26_RejectionRecordsNothing ==
    (lastResult.endpoint \in Endpoints /\ ~lastResult.allowed) =>
        LET kept == requests[lastResult.endpoint][lastResult.identifier]
            cfg == configs[lastResult.endpoint]
        IN  /\ kept = lastResult.prev
            /\ NextAllowedAt(kept, cfg, lastResult.at)
                  = NextAllowedAt(lastResult.prev, cfg, lastResult.at)
            /\ (lastResult.rej.seen /\ lastResult.rej.clean) =>
                  NextAllowedAt(kept, cfg, lastResult.at)
                      = NextAllowedAt(kept, cfg, lastResult.rej.at)

\* C26 witness: a rejected call repeated later, still rejected, no call of
\* the pair having been allowed in between.
C26_Witness ==
    /\ lastResult.endpoint \in Endpoints
    /\ ~lastResult.allowed
    /\ lastResult.rej.seen
    /\ lastResult.rej.clean
    /\ lastResult.at > lastResult.rej.at

\* C27: the instants stored for an identifier that lie inside the current
\* window never number more than maxRequests, and the remaining field of a
\* result is maxRequests minus their number as it stands after the call.
C27_WindowOccupancyBounded ==
    /\ \A p \in Pairs :
          Len(FilterWindow(requests[p[1]][p[2]], now - configs[p[1]].windowMs))
              <= configs[p[1]].maxRequests
    /\ lastResult.endpoint \in Endpoints =>
          LET kept == requests[lastResult.endpoint][lastResult.identifier]
              cfg == configs[lastResult.endpoint]
          IN  /\ lastResult.remaining
                    = cfg.maxRequests
                        - Len(FilterWindow(kept, lastResult.at - cfg.windowMs))
              /\ lastResult.remaining = GetRemainingRequests(kept, cfg, lastResult.at)

\* C27 witness: the window has slid: an allowed call found an expired
\* instant stored, dropped it, and filled the window.
C27_Witness ==
    /\ lastResult.endpoint \in Endpoints
    /\ lastResult.allowed
    /\ lastResult.remaining = 0
    /\ LET cfg == configs[lastResult.endpoint]
       IN  /\ cfg.maxRequests > 1
           /\ Len(FilterWindow(lastResult.prev, lastResult.at - cfg.windowMs))
                 < Len(lastResult.prev)

Done(r) == rq[r].pc = "done"

\* C2: when the generative capability is not configured, or is configured
\* and its call fails with an error, generateResponse does not throw and
\* returns a response with a non-empty text and aiPowered=false.
C2_FallbackWhenUnavailableOrFailing ==
    \A r \in DOMAIN rq :
        (Done(r) /\ (~aiAvailable \/ rq[r].aiReturned = "error")) =>
            /\ ~rq[r].threw
            /\ rq[r].resp.response # << >>
            /\ ~rq[r].resp.aiPowered

\* Witness of C2: a request with context enabled whose generative call
\* failed has ended with a text.
C2_Witness ==
    \E r \in DOMAIN rq :
        /\ Done(r)
        /\ aiAvailable
        /\ rq[r].aiReturned = "error"
        /\ rq[r].req.bangaloreContextEnabled
        /\ rq[r].resp.response # << >>

\* C3: on the generative path and on the fallback path, a request with
\* context disabled yields bangaloreContextActive=false with empty
\* contextUsed and contextFilesUsed, and a request with context enabled
\* yields bangaloreContextActive=true.
C3_ContextSwitchReflected ==
    \A r \in DOMAIN rq :
        Done(r) =>
            IF rq[r].req.bangaloreContextEnabled
            THEN rq[r].resp.bangaloreContextActive
            ELSE /\ ~rq[r].resp.bangaloreContextActive
                 /\ rq[r].resp.contextUsed = << >>
                 /\ rq[r].resp.contextFilesUsed = << >>

\* Witness of C3: a request with context disabled and a non-empty active
\* list has ended on the fallback path after a failed generative call.
C3_Witness ==
    \E r \in DOMAIN rq :
        /\ Done(r)
        /\ ~rq[r].req.bangaloreContextEnabled
        /\ rq[r].req.loadedContexts # << >>
        /\ rq[r].aiReturned = "error"
        /\ ~rq[r].resp.aiPowered
        /\ ~rq[r].resp.bangaloreContextActive

\* C4: the generative service's limiter (60 requests per 60,000 ms) bounds
\* the external generative calls: no window (t - 60,000, t] holds more than
\* 60 of them, the 61st query being answered by the fallback path.
C4_AtMostSixtyCallsPerWindow ==
    \A k \in 1..Len(aiCallLog) :
        k + OPENAI_MAX_REQUESTS <= Len(aiCallLog) =>
            aiCallLog[k + OPENAI_MAX_REQUESTS] - aiCallLog[k] >= OPENAI_WINDOW_MS

\* C5: when the generative capability returns successfully with empty
\* text, the request falls back: aiPowered=false and a non-empty text.
C5_EmptyGenerativeTextFallsBack ==
    \A r \in DOMAIN rq :
        (Done(r) /\ rq[r].aiReturned = "empty") =>
            /\ ~rq[r].resp.aiPowered
            /\ rq[r].resp.response # << >>

\* C7: the outcome of a query depends only on the request's own inputs and
\* the document files: two requests with the same inputs get the same
\* response, whatever other requests and toggles did to the store.
C7_OutcomeIndependentOfStore ==
    \A r1, r2 \in DOMAIN rq :
        (Done(r1) /\ Done(r2) /\ rq[r1].req = rq[r2].req) =>
            rq[r1].resp = rq[r2].resp

\* C8: a query with context disabled loads no document: it adds nothing
\* to the store's set of loaded documents.
C8_DisabledQueryLoadsNothing ==
    \A r \in DOMAIN rq :
        (Done(r) /\ ~rq[r].req.bangaloreContextEnabled) => rq[r].loadedByMe = {}

\* C9: every query eventually completes, also when an external capability
\* never responds.
C9_QueryEventuallyCompletes ==
    (rq[1].pc # "idle") ~> (rq[1].pc = "done")

\* C10: within one request the generative capability is invoked at most
\* once, the places capability at most once, fallback assembly runs at most
\* once and only when the generative attempt was skipped or failed, never
\* before it, and a request ends either on the generative text or on the
\* fallback, not both.
C10_SingleAttemptSingleFallback ==
    \A r \in DOMAIN rq :
        /\ rq[r].aiCalls <= 1
        /\ rq[r].mapsCalls <= 1
        /\ rq[r].fallbackRuns <= 1
        /\ rq[r].fallbackRuns = 1 => rq[r].ai \in {"unavailable", "rejected", "error"}
        /\ rq[r].ai \in {"unavailable", "rejected"} => rq[r].aiCalls = 0
        /\ rq[r].pc = "awaitAI" => rq[r].fallbackRuns = 0 /\ rq[r].aiCalls = 1
        /\ Done(r) =>
              \/ /\ rq[r].ai = "ok" /\ rq[r].aiCalls = 1 /\ rq[r].fallbackRuns = 0
                 /\ rq[r].resp.aiPowered
              \/ /\ rq[r].ai # "ok" /\ rq[r].fallbackRuns = 1
                 /\ ~rq[r].resp.aiPowered

\* Witness of C10: a request whose only generative call failed has ended
\* after one run of the fallback.
C10_Witness ==
    \E r \in DOMAIN rq :
        /\ Done(r)
        /\ rq[r].ai = "error"
        /\ rq[r].aiCalls = 1
        /\ rq[r].fallbackRuns = 1

\* C16: with the slang document active and readable, context enabled and
\* the generative capability unavailable, the query "What is sakkath?" is
\* answered by the fallback (aiPowered=false) with a text that contains
\* the meaning the slang document's table records for "sakkath".
C16_SakkathMeaningInFallback ==
    \A r \in DOMAIN rq :
        (/\ Done(r)
         /\ ~aiAvailable
         /\ rq[r].req.query = WhatIsSakkath
         /\ rq[r].req.bangaloreContextEnabled
         /\ rq[r].req.loadedContexts = <<"slang">>
         /\ "slang" \in loadedContexts) =>
            /\ ~rq[r].resp.aiPowered
            /\ Includes(rq[r].resp.response, <<"awesome">>)

\* The texts with local phrases, dishes and places that the handlers carry
\* in their code.
LocaleSpecificTexts ==
    {"Common Bangalore phrases: ... What specific phrase would you like to know about?",
     "Must-try in Bangalore: Masala Dosa, Filter Coffee, Bisi Bele Bath. ...",
     "Bangalore traffic tip: Avoid Silk Board junction during peak hours ...",
     "Key etiquette: Use Anna/Akka for strangers, remove shoes at temples and homes ..."}

\* C25: when no document supplies a match for the query's intent (here:
\* the active list is empty), the fallback response is the persona prefix
\* followed by a sentence with no local phrases, dishes or place names.
C25_NoMatchGivesGenericSentence ==
    \A r \in DOMAIN rq :
        (/\ Done(r)
         /\ ~rq[r].resp.aiPowered
         /\ rq[r].req.bangaloreContextEnabled
         /\ rq[r].req.loadedContexts = << >>) =>
            \A k \in 1..Len(rq[r].resp.response) :
                rq[r].resp.response[k] \notin LocaleSpecificTexts

\* The elements of a sequence.
Range(seq) == {seq[j] : j \in 1..Len(seq)}

\* C18: every id in contextUsed, and every file in contextFilesUsed, of a
\* response names a document of the request's active list that the request
\* found loaded in the store and consulted.
C18_ReportedDocumentsWereConsulted ==
    \A r \in DOMAIN rq :
        Done(r) =>
            LET consulted == Range(rq[r].contextContents)
            IN  /\ \A id \in Range(rq[r].resp.contextUsed) :
                      /\ id \in Range(rq[r].req.loadedContexts)
                      /\ id \in consulted
                /\ \A file \in Range(rq[r].resp.contextFilesUsed) :
                      \E id \in consulted : file = FileName[id]

\* Two requests that differ in persona and in nothing else.
DifferOnlyInPersona(r1, r2) ==
    /\ rq[r1].req.persona # rq[r2].req.persona
    /\ [rq[r1].req EXCEPT !.persona = "none"] = [rq[r2].req EXCEPT !.persona = "none"]

\* C19: two requests that differ only in persona consult the same
\* documents: where both ended on the fallback path their contextUsed and
\* contextFilesUsed are equal, and where both built a prompt for the
\* generative capability the documents placed in it are the same.
C19_PersonaDoesNotChangeDocuments ==
    \A r1, r2 \in DOMAIN rq :
        DifferOnlyInPersona(r1, r2) =>
            /\ (/\ Done(r1) /\ Done(r2)
                /\ rq[r1].fallbackRuns = 1 /\ rq[r2].fallbackRuns = 1) =>
                   /\ rq[r1].resp.contextUsed = rq[r2].resp.contextUsed
                   /\ rq[r1].resp.contextFilesUsed = rq[r2].resp.contextFilesUsed
            /\ (rq[r1].prompt.built /\ rq[r2].prompt.built) =>
                   rq[r1].prompt.contexts = rq[r2].prompt.contexts

\* Witness of C19: a newbie's and a student's request, otherwise equal and
\* with context enabled, both had documents placed in their prompt and both
\* ended on the fallback path after the generative call failed.
C19_Witness ==
    \E r1, r2 \in DOMAIN rq :
        /\ DifferOnlyInPersona(r1, r2)
        /\ Done(r1) /\ Done(r2)
        /\ rq[r1].prompt.contexts # << >>
        /\ rq[r2].prompt.contexts # << >>
        /\ rq[r1].aiReturned = "error" /\ rq[r2].aiReturned = "error"
        /\ rq[r1].resp.contextFilesUsed # << >>

(***************************************************************************)
(* Claims about the document store, checked under SpecStore.               *)
(***************************************************************************)
\* C12: a toggle of an id that is not a configured document surfaces a
\* NotFound error to its caller and never reports the id as loaded.
C12_UnknownToggleNotFound ==
    (tg.pc = "idle" /\ tg.id \notin ContextFileIds \cup {"none"}) =>
        /\ tg.error = "NotFound"
        /\ ~tg.isLoaded

\* C13: two getAvailableContexts calls with no toggle between them return
\* the same isLoaded flag for every document, also when queries were
\* processed between the two calls.
C13_ListUnchangedWithoutToggle ==
    (ls.count = 2 /\ ls.sameEpoch) => ls.cur = ls.prev

\* The list `contextIds` without `fileId`.
Without(contextIds, fileId) == SelectSeq(contextIds, LAMBDA id : id # fileId)

\* C21: loading a document whose file is missing or unreadable raises no
\* error and leaves the document held as a loaded (empty) document; a
\* search over an active list gives the same matches with the bad document
\* in the list as without it.
C21_UnreadableLoadsAsEmptyDocument ==
    (tg.pc = "idle" /\ tg.isLoaded /\ tg.id \in ContextFileIds \ readable) =>
        /\ tg.error = "none"
        /\ tg.stored
        /\ \A query \in Queries, contextIds \in ActiveLists :
              SearchInContexts(loadedContexts, query, contextIds)
                  = SearchInContexts(loadedContexts, query, Without(contextIds, tg.id))

\* C28: the isLoaded value a toggleContext call returns equals the
\* document's loaded state in the store at the moment the call returns, for
\* every id and also when the load fails.
C28_ToggleReportsStoreState ==
    (tg.pc = "idle" /\ tg.id # "none") => tg.isLoaded = tg.stored

(***************************************************************************)
(* Claims about the store's content under concurrency, checked under       *)
(* SpecDocs.                                                               *)
(***************************************************************************)
\* C22: once a load has stored a content, the store holds that content
\* whole, and every search is derived from the content stored by the most
\* recent completed load only: a search never sees sections of two contents
\* mixed, whatever loads, toggles and file changes run around it.
C22_SearchSeesWholeLatestDocument ==
    /\ cm.held.loaded =>
          /\ cm.last \in DOMAIN ParseMarkdownSections
          /\ cm.held.sections = ParseMarkdownSections[cm.last]
    /\ ~cm.held.loaded => cm.last = "none"
    /\ cm.search.done =>
          cm.search.results =
              IF cm.search.last = "none" THEN << >>
              ELSE SearchSections(DocId, ParseMarkdownSections[cm.search.last],
                                  cm.search.query)

\* C22 witness: two loads have completed, one with the old content and one
\* with the new; the new one is held and a search has matched in it.
C22_Witness ==
    /\ cm.call[1].op = "load" /\ cm.call[1].pc = "idle" /\ cm.call[1].content = "v1"
    /\ cm.call[2].op = "load" /\ cm.call[2].pc = "idle" /\ cm.call[2].content = "v2"
    /\ cm.held.loaded /\ cm.last = "v2"
    /\ cm.search.done /\ cm.search.last = "v2"
    /\ cm.search.query = <<"sakkath">>
    /\ cm.search.results # << >>

\* C29: after two toggleContext calls for the document have both
\* completed, one after the other or concurrently, the document's loaded
\* state is what it was before them and the two calls returned opposite
\* isLoaded values.
C29_TwoTogglesCancel ==
    (/\ cm.pair.active
     /\ cm.pair.started = CallSlots
     /\ \A p \in CallSlots : cm.call[p].pc = "idle") =>
        /\ cm.held.loaded = cm.pair.before
        /\ cm.call[1].isLoaded # cm.call[2].isLoaded

(***************************************************************************)
(* Claims about the serverless handler, checked under SpecHandler.         *)
(***************************************************************************)
\* C30: the cache a loadContextContent call returns has an entry for every
\* configured document, also when the call is made while another call's
\* load is still in progress.
C30_ReturnedCacheIsComplete ==
    \A p \in DOMAIN sv.call :
        sv.call[p].returned =>
            sv.call[p].keys = {HandlerContextFiles[k] : k \in 1..Len(HandlerContextFiles)}

(***************************************************************************)
(* Claims about LocationService, checked under SpecGeo.                    *)
(***************************************************************************)
\* The areas the loaded city document configures, in table order.
ConfiguredAreas ==
    IF geo.cityDoc.loaded THEN ExtractAreasFromContext(geo.cityDoc.areas) ELSE << >>

\* The point of the call lies outside the box of every configured area.
OutsideEveryArea ==
    \A k \in 1..Len(ConfiguredAreas) : ~InBox(geo.lat, geo.lng, ConfiguredAreas[k])

\* C14: getRecommendations never returns an empty list, and when the live
\* capability gives no candidate, the food document gives no option and the
\* coordinates lie outside every configured area, it returns exactly the
\* two generic suggestions.
C14_NeverEmptyGenericWhenNothing ==
    geo.pc = "done" =>
        /\ geo.result # << >>
        /\ (/\ geo.maps # "places"
            /\ (~geo.foodDoc.loaded \/ geo.foodDoc.options = << >>)
            /\ OutsideEveryArea)
               => geo.result = GenericRecommendations

\* C15 as stated: on the fallback path, coordinates inside the box of a
\* configured area are resolved to that area.
C15_InsideBoxResolvesToThatArea ==
    (geo.pc = "done" /\ geo.area # "none") =>
        \A k \in 1..Len(ConfiguredAreas) :
            InBox(geo.lat, geo.lng, ConfiguredAreas[k]) =>
                geo.area = ConfiguredAreas[k].name

\* C15 amended: on the fallback path, coordinates inside the box of a
\* configured area are never resolved to 'Unknown Area'; they are resolved
\* to the first configured area, in table order, whose box holds them,
\* hence to that area unless an earlier area's box holds them too.
C15_InsideBoxResolvesToFirstHolder ==
    (geo.pc = "done" /\ geo.area # "none") =>
        \A k \in 1..Len(ConfiguredAreas) :
            InBox(geo.lat, geo.lng, ConfiguredAreas[k]) =>
                /\ geo.area # UnknownArea
                /\ \E j \in 1..k :
                      /\ geo.area = ConfiguredAreas[j].name
                      /\ InBox(geo.lat, geo.lng, ConfiguredAreas[j])
                      /\ \A i \in 1..(j - 1) : ~InBox(geo.lat, geo.lng, ConfiguredAreas[i])

\* Witness of C15: coordinates on the edge shared by the boxes of
\* Koramangala and Jayanagar, both configured, were resolved to
\* Koramangala on the fallback path.
C15_Witness ==
    /\ geo.pc = "done"
    /\ geo.maps # "places"
    /\ \E j, k \in 1..Len(ConfiguredAreas) :
          /\ j < k
          /\ InBox(geo.lat, geo.lng, ConfiguredAreas[j])
          /\ InBox(geo.lat, geo.lng, ConfiguredAreas[k])
          /\ ConfiguredAreas[k].name = "Jayanagar"
          /\ geo.area = "Koramangala"

\* C23: when the live places call fails with an error, getRecommendations
\* does not throw and returns exactly what the fallback path returns for
\* the same coordinates and documents, with no live candidate in it.
C23_LiveErrorGivesFallbackOnly ==
    (geo.pc = "done" /\ geo.maps = "error") =>
        /\ ~geo.threw
        /\ geo.result = ContextOnlyRecommendations(geo.lat, geo.lng, geo.foodDoc,
                                                   geo.cityDoc)
        /\ \A k \in 1..Len(geo.result) : geo.result[k] # "live place"

\* C23 witness: the live call failed for coordinates inside a configured
\* area with both documents loaded, and recommendations came back.
C23_Witness ==
    /\ geo.pc = "done"
    /\ geo.maps = "error"
    /\ geo.foodDoc.loaded /\ geo.foodDoc.options # << >>
    /\ geo.cityDoc.loaded
    /\ geo.area = "Koramangala"
    /\ geo.result # << >>
    /\ ~geo.threw

(***************************************************************************)
(* Claims about SlangInterpreter, checked under SpecSlang.                 *)
(***************************************************************************)
\* Number of characters of a key: its words and the blanks between them.
KeyLength(key) ==
    LET chars == [hogi |-> 4, shortcut |-> 8, sakkath |-> 7, oota |-> 4, aaytha |-> 6]
        RECURSIVE Sum(_)
        Sum(k) == IF k = << >> THEN 0 ELSE chars[Head(k)] + 1 + Sum(Tail(k))
    IN  Sum(key) - 1

\* C17: explainSlang returns the entry whose key equals the lower-cased
\* phrase when there is one; otherwise, among the entries whose key
\* contains the phrase or is contained in it, one with the longest key;
\* and null only when no entry matches either way.
C17_ExactThenLongestPartial ==
    sl.pc = "done" =>
        LET phraseLower == ToLowerCase(sl.phrase)
            keys == {sl.slangEntries[j] : j \in 1..Len(sl.slangEntries)}
            partial == {k \in keys : Includes(k, phraseLower) \/ Includes(phraseLower, k)}
        IN  IF phraseLower \in keys THEN sl.result = phraseLower
            ELSE IF partial # {}
                 THEN /\ sl.result \in partial
                      /\ \A k \in partial : KeyLength(sl.result) >= KeyLength(k)
                 ELSE sl.result = NoExplanation

(***************************************************************************)
(* Claims about the POST /query route, checked under SpecRoute.            *)
(***************************************************************************)
\* A body the validators accept: an object whose query has a character
\* that is not a blank, whose persona, when given, is a known one, and
\* whose location, when given, lies within +-90 and +-180 degrees.
AcceptableBody(body) ==
    /\ body.present
    /\ body.query \notin {"undefined", "", " "}
    /\ body.persona \in {"undefined", "newbie", "student", "it-professional", "tourist"}
    /\ body.location.defined =>
          /\ body.location.lat \in -9000..9000
          /\ body.location.lng \in -18000..18000

\* C20: generateResponse runs for a POST /query only after the limiter has
\* allowed ("query", identifier) and the body has passed validation; a
\* request answered with 429 or 400 never reaches the orchestrator: it
\* leaves the request slot idle, the store and the log of external calls
\* as they were.
C20_OrchestratorOnlyAfterAdmissionAndValidation ==
    post.n > 0 =>
        /\ post.entered =>
              /\ lastResult.endpoint = "query"
              /\ lastResult.allowed
              /\ AcceptableBody(post.body)
        /\ post.status \in {400, 429} =>
              /\ ~post.entered
              /\ post.untouched
              /\ rq[1].pc = "idle"
        /\ ~lastResult.allowed => post.status = 429
        /\ (lastResult.allowed /\ ~AcceptableBody(post.body)) => post.status = 400

\* C20 witness: after an earlier request went through and loaded a
\* document, a well-formed request is turned away by the limiter and
\* touches nothing.
C20_Witness ==
    /\ post.n = 2
    /\ post.status = 429
    /\ AcceptableBody(post.body)
    /\ ~post.entered
    /\ post.untouched
    /\ loadedContexts # {}

====
